---- MODULE Spec2Model ----
(***************************************************************************)
(* Rule selection of the GitLab MCP server: the rule catalog and the       *)
(* project-type table (core/utils/codereview/rules.ts), the project        *)
(* configuration store (core/utils/codereview/project-rules.ts), the       *)
(* merge-request aggregation and the review profiles                       *)
(* (core/utils/gitlab-helpers.ts), the report, and the note tool with its  *)
(* Lark notification (core/tools/gitlab.ts, core/services/lark.ts).        *)
(*                                                                         *)
(* A tool request is modelled in two steps: the request arrives with its   *)
(* arguments (op = "...", phase = "called"), then the function runs on     *)
(* them as one atomic step (phase = "returned", ret holds what it          *)
(* returned or that it threw).  Strings are TLA+ strings; TLC evaluates    *)
(* Len and SubSeq on them, so patterns are matched character by character  *)
(* the way the JavaScript does.                                            *)
(*                                                                         *)
(* A rule is the record of the fields of CodeReviewRule that the code      *)
(* reads or that tell two rules apart: id, title, severity, category,     *)
(* applicableFiles, projectTypes.  The free-text description is carried    *)
(* along by the code exactly like title and is not read anywhere; title    *)
(* stands for both.                                                        *)
(***************************************************************************)
EXTENDS Integers, Sequences, FiniteSets, TLC

VARIABLES
  fileSystem,             \* the three candidate configuration files, as module load found them
  log,                    \* what loadExternalRules wrote to the logger
  PROJECT_SPECIFIC_RULES, \* the effective project configuration map, built at module load
  op,                     \* the function of the current request
  phase,                  \* "idle" | "called" | an await of write_gitlab_mr_note | "returned"
  args,                   \* the arguments of the current request
  ret,                    \* what the function returned (or that it threw)
  detectedTypes,          \* the caller's detectedTypes array (collectMergeRequestRules pushes into it)
  repeat,                 \* allRules of a second call with the same arguments, or NotCalled
  rerun,                  \* what a second call with the array left by the first returned, or NotCalled
  env,                    \* process.env as write_gitlab_mr_note finds it
  local,                  \* the local variables of write_gitlab_mr_note and of sendToWebhook
  gitlabNotes,            \* the notes that the request has written to the merge request
  webhook                 \* the requests that the request has sent to the Lark webhook

\* what module load sets
loaded == <<fileSystem, log, PROJECT_SPECIFIC_RULES>>

\* what only write_gitlab_mr_note changes
noteTool == <<env, local, gitlabNotes, webhook>>

vars == <<fileSystem, log, PROJECT_SPECIFIC_RULES, op, phase, args, ret, detectedTypes, repeat,
          rerun, env, local, gitlabNotes, webhook>>

(***************************************************************************)
(* Bounds of the model.                                                    *)
(***************************************************************************)
\* the largest number of changed files of a merge request, and of file paths given to detection
MaxChanges == 2

\* the largest number of rules given to formatRulesOutput
MaxFormatted == 3

(***************************************************************************)
(* JavaScript string operations used by the code.                          *)
(***************************************************************************)
charAt(s, i) == SubSeq(s, i, i)

\* the rest of s after its first k characters
dropChars(s, k) == SubSeq(s, k + 1, Len(s))

\* String.prototype.includes
includes(s, sub) ==
  \E i \in 0..(Len(s) - Len(sub)) : SubSeq(s, i + 1, i + Len(sub)) = sub

\* String.prototype.endsWith
endsWith(s, suffix) ==
  /\ Len(suffix) <= Len(s)
  /\ SubSeq(s, Len(s) - Len(suffix) + 1, Len(s)) = suffix

\* the regular expression new RegExp(pattern.replace(/\*/g, '.*')) matched at
\* the start of s: a '*' of the pattern became '.*' (any characters), a '.'
\* of the pattern is the regular expression's any-character, every other
\* character of the catalog's patterns is literal.
RECURSIVE matchHere(_, _)
matchHere(pattern, s) ==
  IF pattern = "" THEN TRUE
  ELSE IF charAt(pattern, 1) = "*"
       THEN \E k \in 0..Len(s) : matchHere(dropChars(pattern, 1), dropChars(s, k))
       ELSE /\ s # ""
            /\ charAt(pattern, 1) = "." \/ charAt(pattern, 1) = charAt(s, 1)
            /\ matchHere(dropChars(pattern, 1), dropChars(s, 1))

\* regex.test(s): the expression is not anchored, it may match anywhere in s
regexTest(pattern, s) ==
  \E i \in 0..Len(s) : matchHere(pattern, dropChars(s, i))

\* filePath.split('/').pop(): the part after the last '/'
lastSegment(filePath) ==
  LET slashes == {i \in 1..Len(filePath) : charAt(filePath, i) = "/"}
      last == IF slashes = {} THEN 0 ELSE CHOOSE i \in slashes : \A j \in slashes : j <= i
  IN dropChars(filePath, last)

\* Array.prototype.includes on a sequence
inSeq(x, seq) == \E i \in 1..Len(seq) : seq[i] = x

(***************************************************************************)
(* The rule catalog and the project types, in the order of their object    *)
(* literals (the order Object.values and Object.entries give).             *)
(***************************************************************************)
CODE_REVIEW_RULES ==
  <<
   [id |-> "ts-strict-mode", title |-> "TypeScript Strict Mode",
    severity |-> "warning", category |-> "best-practice",
    applicableFiles |-> <<"*.ts", "*.tsx">>,
    projectTypes |-> <<"typescript", "react", "node">>],
   [id |-> "no-any-type", title |-> "Avoid any Type",
    severity |-> "warning", category |-> "maintainability",
    applicableFiles |-> <<"*.ts", "*.tsx">>,
    projectTypes |-> <<"typescript", "react", "node">>],
   [id |-> "async-await-best-practice", title |-> "Async/Await Best Practices",
    severity |-> "warning", category |-> "best-practice",
    applicableFiles |-> <<"*.ts", "*.tsx", "*.js", "*.jsx">>,
    projectTypes |-> <<"typescript", "javascript", "react", "node">>],
   [id |-> "environment-variables", title |-> "Environment Variables Validation",
    severity |-> "error", category |-> "security",
    applicableFiles |-> <<"*.ts", "*.js">>,
    projectTypes |-> <<"node", "backend">>],
   [id |-> "react-hooks-dependencies", title |-> "React Hooks Dependencies",
    severity |-> "error", category |-> "best-practice",
    applicableFiles |-> <<"*.tsx", "*.jsx">>,
    projectTypes |-> <<"react">>],
   [id |-> "react-key-prop", title |-> "React Key Prop",
    severity |-> "warning", category |-> "performance",
    applicableFiles |-> <<"*.tsx", "*.jsx">>,
    projectTypes |-> <<"react">>],
   [id |-> "react-component-naming", title |-> "React Component Naming",
    severity |-> "info", category |-> "style",
    applicableFiles |-> <<"*.tsx", "*.jsx">>,
    projectTypes |-> <<"react">>],
   [id |-> "go-error-handling", title |-> "Go Error Handling",
    severity |-> "error", category |-> "best-practice",
    applicableFiles |-> <<"*.go">>,
    projectTypes |-> <<"go">>],
   [id |-> "go-context-usage", title |-> "Go Context Usage",
    severity |-> "warning", category |-> "best-practice",
    applicableFiles |-> <<"*.go">>,
    projectTypes |-> <<"go">>],
   [id |-> "go-interface-naming", title |-> "Go Interface Naming",
    severity |-> "info", category |-> "style",
    applicableFiles |-> <<"*.go">>,
    projectTypes |-> <<"go">>],
   [id |-> "python-type-hints", title |-> "Python Type Hints",
    severity |-> "warning", category |-> "maintainability",
    applicableFiles |-> <<"*.py">>,
    projectTypes |-> <<"python">>],
   [id |-> "python-docstrings", title |-> "Python Docstrings",
    severity |-> "info", category |-> "maintainability",
    applicableFiles |-> <<"*.py">>,
    projectTypes |-> <<"python">>],
   [id |-> "python-exception-handling", title |-> "Python Exception Handling",
    severity |-> "warning", category |-> "best-practice",
    applicableFiles |-> <<"*.py">>,
    projectTypes |-> <<"python">>],
   [id |-> "rust-error-handling", title |-> "Rust Error Handling",
    severity |-> "error", category |-> "best-practice",
    applicableFiles |-> <<"*.rs">>,
    projectTypes |-> <<"rust">>],
   [id |-> "rust-option-handling", title |-> "Rust Option Handling",
    severity |-> "warning", category |-> "best-practice",
    applicableFiles |-> <<"*.rs">>,
    projectTypes |-> <<"rust">>],
   [id |-> "rust-ownership-borrowing", title |-> "Rust Ownership and Borrowing",
    severity |-> "warning", category |-> "performance",
    applicableFiles |-> <<"*.rs">>,
    projectTypes |-> <<"rust">>],
   [id |-> "rust-lifetime-management", title |-> "Rust Lifetime Management",
    severity |-> "warning", category |-> "maintainability",
    applicableFiles |-> <<"*.rs">>,
    projectTypes |-> <<"rust">>],
   [id |-> "rust-memory-safety", title |-> "Rust Memory Safety",
    severity |-> "error", category |-> "security",
    applicableFiles |-> <<"*.rs">>,
    projectTypes |-> <<"rust">>],
   [id |-> "rust-concurrency", title |-> "Rust Concurrency Safety",
    severity |-> "warning", category |-> "security",
    applicableFiles |-> <<"*.rs">>,
    projectTypes |-> <<"rust">>],
   [id |-> "rust-performance-clones", title |-> "Rust Performance - Avoid Unnecessary Clones",
    severity |-> "warning", category |-> "performance",
    applicableFiles |-> <<"*.rs">>,
    projectTypes |-> <<"rust">>],
   [id |-> "rust-naming-conventions", title |-> "Rust Naming Conventions",
    severity |-> "info", category |-> "style",
    applicableFiles |-> <<"*.rs">>,
    projectTypes |-> <<"rust">>],
   [id |-> "rust-module-organization", title |-> "Rust Module Organization",
    severity |-> "info", category |-> "maintainability",
    applicableFiles |-> <<"*.rs">>,
    projectTypes |-> <<"rust">>],
   [id |-> "rust-clippy-lints", title |-> "Rust Clippy Lints",
    severity |-> "warning", category |-> "best-practice",
    applicableFiles |-> <<"*.rs">>,
    projectTypes |-> <<"rust">>],
   [id |-> "rust-documentation", title |-> "Rust Documentation",
    severity |-> "info", category |-> "maintainability",
    applicableFiles |-> <<"*.rs">>,
    projectTypes |-> <<"rust">>],
   [id |-> "rust-testing", title |-> "Rust Testing",
    severity |-> "warning", category |-> "best-practice",
    applicableFiles |-> <<"*.rs">>,
    projectTypes |-> <<"rust">>],
   [id |-> "sh-shebang", title |-> "Shell Script Shebang",
    severity |-> "warning", category |-> "best-practice",
    applicableFiles |-> <<"*.sh", "*.bash">>,
    projectTypes |-> <<"sh">>],
   [id |-> "sh-error-handling", title |-> "Shell Script Error Handling",
    severity |-> "error", category |-> "best-practice",
    applicableFiles |-> <<"*.sh", "*.bash">>,
    projectTypes |-> <<"sh">>],
   [id |-> "sh-variable-quoting", title |-> "Shell Variable Quoting",
    severity |-> "warning", category |-> "security",
    applicableFiles |-> <<"*.sh", "*.bash">>,
    projectTypes |-> <<"sh">>],
   [id |-> "sh-command-substitution", title |-> "Shell Command Substitution",
    severity |-> "info", category |-> "style",
    applicableFiles |-> <<"*.sh", "*.bash">>,
    projectTypes |-> <<"sh">>],
   [id |-> "sh-function-naming", title |-> "Shell Function Naming",
    severity |-> "info", category |-> "style",
    applicableFiles |-> <<"*.sh", "*.bash">>,
    projectTypes |-> <<"sh">>],
   [id |-> "sh-array-handling", title |-> "Shell Array Handling",
    severity |-> "warning", category |-> "best-practice",
    applicableFiles |-> <<"*.sh", "*.bash">>,
    projectTypes |-> <<"sh">>],
   [id |-> "sh-portability", title |-> "Shell Script Portability",
    severity |-> "warning", category |-> "maintainability",
    applicableFiles |-> <<"*.sh">>,
    projectTypes |-> <<"sh">>],
   [id |-> "sh-debugging", title |-> "Shell Script Debugging",
    severity |-> "info", category |-> "best-practice",
    applicableFiles |-> <<"*.sh", "*.bash">>,
    projectTypes |-> <<"sh">>],
   [id |-> "no-hardcoded-secrets", title |-> "No Hardcoded Secrets",
    severity |-> "error", category |-> "security",
    applicableFiles |-> <<"*">>,
    projectTypes |-> <<"*">>],
   [id |-> "input-validation", title |-> "Input Validation",
    severity |-> "error", category |-> "security",
    applicableFiles |-> <<"*">>,
    projectTypes |-> <<"*">>],
   [id |-> "code-style-consistent-naming", title |-> "Consistent Naming Convention",
    severity |-> "warning", category |-> "style",
    applicableFiles |-> <<"*">>,
    projectTypes |-> <<"*">>],
   [id |-> "code-style-function-length", title |-> "Function Length Control",
    severity |-> "info", category |-> "style",
    applicableFiles |-> <<"*">>,
    projectTypes |-> <<"*">>],
   [id |-> "code-style-comments-quality", title |-> "High-Quality Comments",
    severity |-> "info", category |-> "style",
    applicableFiles |-> <<"*">>,
    projectTypes |-> <<"*">>],
   [id |-> "code-style-magic-numbers", title |-> "No Magic Numbers",
    severity |-> "warning", category |-> "style",
    applicableFiles |-> <<"*">>,
    projectTypes |-> <<"*">>],
   [id |-> "code-style-code-duplication", title |-> "Avoid Code Duplication",
    severity |-> "warning", category |-> "style",
    applicableFiles |-> <<"*">>,
    projectTypes |-> <<"*">>],
   [id |-> "code-style-error-messages", title |-> "Meaningful Error Messages",
    severity |-> "info", category |-> "style",
    applicableFiles |-> <<"*">>,
    projectTypes |-> <<"*">>],
   [id |-> "code-style-api-design", title |-> "Consistent API Design",
    severity |-> "warning", category |-> "style",
    applicableFiles |-> <<"*">>,
    projectTypes |-> <<"*">>],
   [id |-> "code-style-imports-organization", title |-> "Organized Imports",
    severity |-> "info", category |-> "style",
    applicableFiles |-> <<"*.js", "*.ts", "*.jsx", "*.tsx", "*.py", "*.go", "*.rs">>,
    projectTypes |-> <<"*">>],
   [id |-> "security-authentication", title |-> "Proper Authentication",
    severity |-> "error", category |-> "security",
    applicableFiles |-> <<"*">>,
    projectTypes |-> <<"*">>],
   [id |-> "security-authorization", title |-> "Authorization Checks",
    severity |-> "error", category |-> "security",
    applicableFiles |-> <<"*">>,
    projectTypes |-> <<"*">>],
   [id |-> "security-data-encryption", title |-> "Data Encryption",
    severity |-> "error", category |-> "security",
    applicableFiles |-> <<"*">>,
    projectTypes |-> <<"*">>],
   [id |-> "security-session-management", title |-> "Secure Session Management",
    severity |-> "error", category |-> "security",
    applicableFiles |-> <<"*">>,
    projectTypes |-> <<"*">>],
   [id |-> "security-logging-monitoring", title |-> "Security Logging",
    severity |-> "warning", category |-> "security",
    applicableFiles |-> <<"*">>,
    projectTypes |-> <<"*">>],
   [id |-> "security-cors-configuration", title |-> "CORS Configuration",
    severity |-> "warning", category |-> "security",
    applicableFiles |-> <<"*">>,
    projectTypes |-> <<"backend", "node", "web">>],
   [id |-> "security-rate-limiting", title |-> "Rate Limiting",
    severity |-> "warning", category |-> "security",
    applicableFiles |-> <<"*">>,
    projectTypes |-> <<"backend", "node", "web">>],
   [id |-> "security-error-handling", title |-> "Secure Error Handling",
    severity |-> "error", category |-> "security",
    applicableFiles |-> <<"*">>,
    projectTypes |-> <<"*">>],
   [id |-> "security-dependency-scanning", title |-> "Dependency Security",
    severity |-> "warning", category |-> "security",
    applicableFiles |-> <<"package.json", "requirements.txt", "go.mod", "Cargo.toml">>,
    projectTypes |-> <<"*">>],
   [id |-> "security-file-upload", title |-> "Secure File Upload",
    severity |-> "error", category |-> "security",
    applicableFiles |-> <<"*">>,
    projectTypes |-> <<"*">>],
   [id |-> "security-http-headers", title |-> "Security HTTP Headers",
    severity |-> "warning", category |-> "security",
    applicableFiles |-> <<"*">>,
    projectTypes |-> <<"backend", "web">>],
   [id |-> "security-password-policy", title |-> "Password Security",
    severity |-> "error", category |-> "security",
    applicableFiles |-> <<"*">>,
    projectTypes |-> <<"*">>],
   [id |-> "professional-network-request-restriction", title |-> "Network Request Restriction",
    severity |-> "error", category |-> "security",
    applicableFiles |-> <<"*">>,
    projectTypes |-> <<"*">>],
   [id |-> "professional-logging-prohibition", title |-> "Logging Prohibition",
    severity |-> "error", category |-> "security",
    applicableFiles |-> <<"*">>,
    projectTypes |-> <<"*">>],
   [id |-> "professional-file-write-prohibition", title |-> "File Write Prohibition",
    severity |-> "error", category |-> "security",
    applicableFiles |-> <<"*">>,
    projectTypes |-> <<"*">>],
   [id |-> "professional-signature-data-leakage", title |-> "Signature Data Leakage Prevention",
    severity |-> "error", category |-> "security",
    applicableFiles |-> <<"*">>,
    projectTypes |-> <<"*">>],
   [id |-> "professional-error-sanitization", title |-> "Error Message Sanitization",
    severity |-> "error", category |-> "security",
    applicableFiles |-> <<"*">>,
    projectTypes |-> <<"*">>],
   [id |-> "professional-sensitive-hardcode-detection", title |-> "Sensitive Information Hardcode Detection",
    severity |-> "error", category |-> "security",
    applicableFiles |-> <<"*">>,
    projectTypes |-> <<"*">>],
   [id |-> "professional-keyword-blacklist", title |-> "Keyword Blacklist Check",
    severity |-> "error", category |-> "security",
    applicableFiles |-> <<"*">>,
    projectTypes |-> <<"*">>],
   [id |-> "professional-gomod-replace-prohibition", title |-> "Go.mod Replace Prohibition",
    severity |-> "error", category |-> "security",
    applicableFiles |-> <<"go.mod", "go.sum">>,
    projectTypes |-> <<"go">>],
   [id |-> "professional-dependency-security-scan", title |-> "Dependency Security Scan",
    severity |-> "error", category |-> "security",
    applicableFiles |-> <<"go.mod", "package.json", "requirements.txt", "Cargo.toml">>,
    projectTypes |-> <<"*">>],
   [id |-> "professional-new-dependency-detection", title |-> "New Dependency Detection",
    severity |-> "warning", category |-> "security",
    applicableFiles |-> <<"go.mod", "package.json", "requirements.txt", "Cargo.toml">>,
    projectTypes |-> <<"*">>],
   [id |-> "professional-reflection-dynamic-call-detection", title |-> "Reflection and Dynamic Call Detection",
    severity |-> "error", category |-> "security",
    applicableFiles |-> <<"*">>,
    projectTypes |-> <<"*">>],
   [id |-> "sql-injection-prevention", title |-> "SQL Injection Prevention",
    severity |-> "error", category |-> "security",
    applicableFiles |-> <<"*">>,
    projectTypes |-> <<"backend", "database">>],
   [id |-> "large-file-handling", title |-> "Large File Handling",
    severity |-> "warning", category |-> "performance",
    applicableFiles |-> <<"*">>,
    projectTypes |-> <<"backend", "node">>],
   [id |-> "database-n-plus-one", title |-> "Database N+1 Query Problem",
    severity |-> "warning", category |-> "performance",
    applicableFiles |-> <<"*">>,
    projectTypes |-> <<"backend", "database">>]
  >>

PROJECT_TYPES ==
  <<
   [typeId |-> "typescript", name |-> "TypeScript",
    patterns |-> <<"tsconfig.json", "*.ts", "*.tsx">>,
    defaultRules |-> <<"ts-strict-mode", "no-any-type", "async-await-best-practice", "no-hardcoded-secrets", "input-validation">>],
   [typeId |-> "javascript", name |-> "JavaScript",
    patterns |-> <<"package.json", "*.js", "*.jsx">>,
    defaultRules |-> <<"async-await-best-practice", "no-hardcoded-secrets", "input-validation">>],
   [typeId |-> "react", name |-> "React",
    patterns |-> <<"package.json", "src/**/*.tsx", "src/**/*.jsx", "react">>,
    defaultRules |-> <<"ts-strict-mode", "no-any-type", "react-hooks-dependencies", "react-key-prop", "react-component-naming", "no-hardcoded-secrets">>],
   [typeId |-> "node", name |-> "Node.js",
    patterns |-> <<"package.json", "server.js", "app.js", "index.js">>,
    defaultRules |-> <<"async-await-best-practice", "environment-variables", "no-hardcoded-secrets", "input-validation", "large-file-handling">>],
   [typeId |-> "go", name |-> "Go",
    patterns |-> <<"go.mod", "go.sum", "*.go">>,
    defaultRules |-> <<"go-error-handling", "go-context-usage", "go-interface-naming", "no-hardcoded-secrets", "input-validation">>],
   [typeId |-> "python", name |-> "Python",
    patterns |-> <<"requirements.txt", "pyproject.toml", "*.py">>,
    defaultRules |-> <<"python-type-hints", "python-docstrings", "python-exception-handling", "no-hardcoded-secrets", "input-validation">>],
   [typeId |-> "rust", name |-> "Rust",
    patterns |-> <<"Cargo.toml", "Cargo.lock", "*.rs", "src/main.rs", "src/lib.rs">>,
    defaultRules |-> <<"rust-error-handling", "rust-option-handling", "rust-ownership-borrowing", "rust-memory-safety", "rust-concurrency", "rust-performance-clones", "rust-clippy-lints", "rust-testing", "no-hardcoded-secrets", "input-validation">>],
   [typeId |-> "sh", name |-> "Shell Script",
    patterns |-> <<"*.sh", "*.bash", "*.zsh", "bashrc", "zshrc">>,
    defaultRules |-> <<"sh-shebang", "sh-error-handling", "sh-variable-quoting", "sh-command-substitution", "no-hardcoded-secrets", "input-validation">>],
   [typeId |-> "backend", name |-> "Backend",
    patterns |-> <<"api", "server", "backend">>,
    defaultRules |-> <<"environment-variables", "no-hardcoded-secrets", "input-validation", "sql-injection-prevention", "large-file-handling", "database-n-plus-one">>],
   [typeId |-> "database", name |-> "Database",
    patterns |-> <<"*.sql", "migrations", "schema">>,
    defaultRules |-> <<"sql-injection-prevention", "database-n-plus-one">>]
  >>

\* the keys every JavaScript object inherits from Object.prototype: obj[key]
\* is a (truthy) inherited value for them even when obj has no such own key
ObjectPrototypeKeys ==
  {"constructor", "toString", "toLocaleString", "valueOf", "hasOwnProperty",
   "isPrototypeOf", "propertyIsEnumerable", "__proto__", "__defineGetter__",
   "__defineSetter__", "__lookupGetter__", "__lookupSetter__"}

\* PROJECT_TYPES[projectType]: the own entry, an inherited member, or undefined
projectTypeLookup(projectType) ==
  IF \E i \in 1..Len(PROJECT_TYPES) : PROJECT_TYPES[i].typeId = projectType
  THEN [kind |-> "config",
        config |-> PROJECT_TYPES[CHOOSE i \in 1..Len(PROJECT_TYPES) :
                                   PROJECT_TYPES[i].typeId = projectType]]
  ELSE IF projectType \in ObjectPrototypeKeys
       THEN [kind |-> "inherited"]
       ELSE [kind |-> "undefined"]

\* CODE_REVIEW_RULES[ruleId] for the ids of the defaultRules lists (none of
\* them is a key of Object.prototype): <<rule>> when the catalog has the key,
\* <<>> for undefined
catalogLookup(ruleId) ==
  SelectSeq(CODE_REVIEW_RULES, LAMBDA r : r.id = ruleId)

(***************************************************************************)
(* rules.ts: detection, applicable rules, default rules.                   *)
(***************************************************************************)
\* a pattern with '*' read as a file extension: the text after its last '*'
detectionPatternMatches_extension(pattern, file) ==
  IF includes(pattern, "*")
  THEN LET stars == {i \in 1..Len(pattern) : charAt(pattern, i) = "*"}
           last == CHOOSE i \in stars : \A j \in stars : j <= i
       IN endsWith(file, dropChars(pattern, last))
  ELSE includes(file, pattern)

\* the test of one detection pattern against one file path
detectionPatternMatches(pattern, file) ==
  IF includes(pattern, "*") THEN regexTest(pattern, file)
  ELSE includes(file, pattern)

detectFallback_wildcard(types) == IF types = <<>> THEN <<"*">> ELSE types

\* what detectProjectType returns from the list it collected: the list itself
detectFallback(types) == types

detectProjectType(filePaths) ==
  LET hasPattern(config) ==
        \E p \in 1..Len(config.patterns) : \E f \in 1..Len(filePaths) :
          detectionPatternMatches(config.patterns[p], filePaths[f])
      matching == SelectSeq(PROJECT_TYPES, hasPattern)
  IN detectFallback([i \in 1..Len(matching) |-> matching[i].typeId])

severityOrder(severity) ==
  CASE severity = "error" -> 0
    [] severity = "warning" -> 1
    [] severity = "info" -> 2

sortBySeverity_none(rules) == rules

\* applicableRules.sort((a, b) => severityOrder[a.severity] - severityOrder[b.severity]):
\* Array.prototype.sort is stable, so the rules of order 0 come first in the
\* order they had, then those of order 1, then those of order 2
sortBySeverity(rules) ==
  LET ofOrder(n) == SelectSeq(rules, LAMBDA rule : severityOrder(rule.severity) = n)
  IN ofOrder(0) \o ofOrder(1) \o ofOrder(2)

appliesToProjectType(rule, projectTypes) ==
  \/ \E i \in 1..Len(rule.projectTypes) :
       rule.projectTypes[i] = "*" \/ inSeq(rule.projectTypes[i], projectTypes)
  \/ Len(rule.projectTypes) = 0

applicablePatternMatches(pattern, fileName) ==
  IF pattern = "*" THEN TRUE
  ELSE IF includes(pattern, "*") THEN regexTest(pattern, fileName)
       ELSE endsWith(fileName, pattern)

appliesToFile(rule, fileName) ==
  \E i \in 1..Len(rule.applicableFiles) :
    applicablePatternMatches(rule.applicableFiles[i], fileName)

getApplicableRules(fileName, projectTypes, includeUniversal) ==
  sortBySeverity(
    SelectSeq(CODE_REVIEW_RULES,
              LAMBDA rule : /\ appliesToProjectType(rule, projectTypes)
                            /\ appliesToFile(rule, fileName) \/ includeUniversal))

\* ruleIds.add(ruleId) for every id of the list, in order, on a Set: an id
\* stands where it was first added
addAll(ids) ==
  LET firstAdds == SelectSeq([i \in 1..Len(ids) |-> i],
                             LAMBDA i : \A j \in 1..(i - 1) : ids[j] # ids[i])
  IN [k \in 1..Len(firstAdds) |-> ids[firstAdds[k]]]

RECURSIVE flatten(_)
flatten(seqs) == IF seqs = <<>> THEN <<>> ELSE Head(seqs) \o flatten(Tail(seqs))

\* the default rules of JavaScript, whatever types are given
getDefaultRulesForProjectTypes_javascript(projectTypes) ==
  LET ruleIds == projectTypeLookup("javascript").config.defaultRules
  IN [threw |-> FALSE,
      rules |-> flatten([i \in 1..Len(ruleIds) |-> catalogLookup(ruleIds[i])])]

\* [threw |-> TRUE] for the TypeError of config.defaultRules.forEach when
\* PROJECT_TYPES[projectType] is an inherited member of the object
getDefaultRulesForProjectTypes(projectTypes) ==
  LET looked == [i \in 1..Len(projectTypes) |-> projectTypeLookup(projectTypes[i])]
      ruleIds == addAll(flatten([i \in 1..Len(projectTypes) |->
                                   IF looked[i].kind = "config"
                                   THEN looked[i].config.defaultRules ELSE <<>>]))
  IN IF \E i \in 1..Len(projectTypes) : looked[i].kind = "inherited"
     THEN [threw |-> TRUE, rules |-> <<>>]
     ELSE [threw |-> FALSE,
           rules |-> flatten([i \in 1..Len(ruleIds) |-> catalogLookup(ruleIds[i])])]

(***************************************************************************)
(* project-rules.ts: the configuration store.  A configuration is a record *)
(* holding the fields its object literal (or JSON object) holds: the       *)
(* optional enableDefaultRules, excludeDefaultRules and                    *)
(* additionalProjectTypes are fields of the record only when present.  A   *)
(* map of configurations is the sequence of its entries in property order. *)
(* A project identifier is a string or a number: Str and Num keep the two  *)
(* apart, v is what String() gives.                                        *)
(***************************************************************************)
Str(v) == [type |-> "string", v |-> v]
Num(v) == [type |-> "number", v |-> v]

has(obj, field) == field \in DOMAIN obj

BUILTIN_PROJECT_RULES ==
  <<[key |-> "backend/api-service",
     config |->
       [projectIdentifier |-> Str("backend/api-service"),
        projectName |-> "API Service",
        enableDefaultRules |-> TRUE,
        excludeDefaultRules |-> <<"no-any-type">>,
        additionalProjectTypes |-> <<"backend", "node">>,
        rules |->
          <<[id |-> "api-rate-limiting", title |-> "API Rate Limiting",
             severity |-> "error", category |-> "security",
             applicableFiles |-> <<"**/controllers/*.js", "**/routes/*.js">>,
             projectTypes |-> <<"backend">>],
            [id |-> "api-auth-check", title |-> "API Authentication Check",
             severity |-> "error", category |-> "security",
             applicableFiles |-> <<"**/routes/*.js", "**/middleware/*.js">>,
             projectTypes |-> <<"backend">>],
            [id |-> "api-response-format", title |-> "API Response Format",
             severity |-> "warning", category |-> "maintainability",
             applicableFiles |-> <<"**/controllers/*.js">>,
             projectTypes |-> <<"backend">>],
            [id |-> "database-transaction", title |-> "Database Transaction Management",
             severity |-> "error", category |-> "best-practice",
             applicableFiles |-> <<"**/services/*.js", "**/models/*.js">>,
             projectTypes |-> <<"backend">>]>>]],
    [key |-> "frontend/web-app",
     config |->
       [projectIdentifier |-> Str("frontend/web-app"),
        projectName |-> "Web Application",
        enableDefaultRules |-> TRUE,
        additionalProjectTypes |-> <<"react", "typescript">>,
        rules |->
          <<[id |-> "component-folder-structure", title |-> "Component Folder Structure",
             severity |-> "warning", category |-> "maintainability",
             applicableFiles |-> <<"**/components/**/*.tsx">>,
             projectTypes |-> <<"react">>],
            [id |-> "use-custom-hooks", title |-> "Use Custom Hooks",
             severity |-> "info", category |-> "best-practice",
             applicableFiles |-> <<"**/components/**/*.tsx", "**/hooks/*.ts">>,
             projectTypes |-> <<"react">>],
            [id |-> "accessibility-requirements", title |-> "Accessibility Requirements",
             severity |-> "warning", category |-> "best-practice",
             applicableFiles |-> <<"**/components/**/*.tsx">>,
             projectTypes |-> <<"react">>]>>]],
    [key |-> "microservices/payment-service",
     config |->
       [projectIdentifier |-> Str("microservices/payment-service"),
        projectName |-> "Payment Service",
        enableDefaultRules |-> TRUE,
        additionalProjectTypes |-> <<"go", "backend">>,
        rules |->
          <<[id |-> "payment-security-audit", title |-> "Payment Security Audit",
             severity |-> "error", category |-> "security",
             applicableFiles |-> <<"**/payment/*.go", "**/transaction/*.go">>,
             projectTypes |-> <<"go">>],
            [id |-> "payment-idempotency", title |-> "Payment Idempotency",
             severity |-> "error", category |-> "best-practice",
             applicableFiles |-> <<"**/handlers/*.go", "**/services/*.go">>,
             projectTypes |-> <<"go">>],
            [id |-> "payment-logging", title |-> "Payment Transaction Logging",
             severity |-> "error", category |-> "security",
             applicableFiles |-> <<"**/payment/*.go", "**/logger/*.go">>,
             projectTypes |-> <<"go">>]>>]],
    [key |-> "blockchain/smart-contracts",
     config |->
       [projectIdentifier |-> Str("blockchain/smart-contracts"),
        projectName |-> "Smart Contracts",
        enableDefaultRules |-> FALSE,
        rules |->
          <<[id |-> "reentrancy-guard", title |-> "Reentrancy Guard",
             severity |-> "error", category |-> "security",
             applicableFiles |-> <<"*.sol">>,
             projectTypes |-> <<"solidity">>],
            [id |-> "overflow-protection", title |-> "Integer Overflow Protection",
             severity |-> "error", category |-> "security",
             applicableFiles |-> <<"*.sol">>,
             projectTypes |-> <<"solidity">>],
            [id |-> "gas-optimization", title |-> "Gas Optimization",
             severity |-> "warning", category |-> "performance",
             applicableFiles |-> <<"*.sol">>,
             projectTypes |-> <<"solidity">>]>>]]>>

\* an entry of source merged field by field into the entry of target
RECURSIVE objectSpread_deep(_, _)
objectSpread_deep(target, source) ==
  IF source = <<>> THEN target
  ELSE LET e == Head(source)
           at == {i \in 1..Len(target) : target[i].key = e.key}
           merged(old) ==
             [f \in DOMAIN old \cup DOMAIN e.config |->
                IF f \in DOMAIN e.config THEN e.config[f] ELSE old[f]]
       IN objectSpread_deep(IF at = {} THEN Append(target, e)
                            ELSE [i \in 1..Len(target) |->
                                    IF i \in at
                                    THEN [key |-> e.key, config |-> merged(target[i].config)]
                                    ELSE target[i]],
                            Tail(source))

\* { ...target, ...source }: an entry of source replaces the entry of target
\* with its key where it stands, a new key is added at the end
RECURSIVE objectSpread(_, _)
objectSpread(target, source) ==
  IF source = <<>> THEN target
  ELSE LET e == Head(source)
           at == {i \in 1..Len(target) : target[i].key = e.key}
       IN objectSpread(IF at = {} THEN Append(target, e)
                       ELSE [i \in 1..Len(target) |->
                               IF i \in at THEN e ELSE target[i]],
                       Tail(source))

\* the "projects" objects of the configuration files: an empty one, and one
\* that configures 'acme/legacy' (whose projectIdentifier names another
\* project), 'acme/shop' (whose projectIdentifier is a number) and redefines
\* the builtin 'backend/api-service'
ExternalProjects ==
  {<<>>,
   <<[key |-> "acme/legacy",
      config |->
        [projectIdentifier |-> Str("acme/shop"),
         projectName |-> "Legacy Shop",
         rules |-> <<>>]],
     [key |-> "acme/shop",
      config |->
        [projectIdentifier |-> Num("42"),
         projectName |-> "Shop",
         excludeDefaultRules |-> <<"input-validation", "no-any-type", "ts-strict-mode">>,
         additionalProjectTypes |-> <<"typescript">>,
         rules |->
           <<[id |-> "no-hardcoded-secrets", title |-> "Shop Secrets Policy",
              severity |-> "warning", category |-> "security",
              applicableFiles |-> <<"*">>,
              projectTypes |-> <<"*">>],
             [id |-> "ts-strict-mode", title |-> "Shop Strict Mode",
              severity |-> "error", category |-> "best-practice",
              applicableFiles |-> <<"*.ts">>,
              projectTypes |-> <<"typescript">>],
             [id |-> "shop-checkout-audit", title |-> "Checkout Audit",
              severity |-> "info", category |-> "security",
              applicableFiles |-> <<"**/checkout/*.ts">>,
              projectTypes |-> <<"typescript">>]>>]],
     [key |-> "backend/api-service",
      config |->
        [projectIdentifier |-> Str("backend/api-service"),
         projectName |-> "API Service (external)",
         enableDefaultRules |-> FALSE,
         excludeDefaultRules |-> <<"environment-variables">>,
         rules |->
           <<[id |-> "api-rate-limiting", title |-> "API Rate Limiting",
              severity |-> "error", category |-> "security",
              applicableFiles |-> <<"**/routes/*.js">>,
              projectTypes |-> <<"backend">>]>>]],
     [key |-> "acme/mobile",
      config |->
        [projectIdentifier |-> Str("acme/mobile"),
         projectName |-> "Mobile",
         additionalProjectTypes |-> <<"react", "typescript", "react">>,
         rules |-> <<>>]]>>}

\* configPaths, relative to process.cwd(), in the order of the search
configPaths ==
  <<"project-rules.config.json", "config/project-rules.json", ".mcp/project-rules.json">>

\* a candidate file: existsSync is false; or it exists and readFileSync or
\* JSON.parse throws; or it exists and parses to the document config
Absent == [exists |-> FALSE]
Unparseable == [exists |-> TRUE, parses |-> FALSE]
Parsed(config) == [exists |-> TRUE, parses |-> TRUE, config |-> config]

\* a document with the projects of the larger configuration, and one
\* without a "projects" member
ShopDocument ==
  [projects |-> CHOOSE projects \in ExternalProjects : projects # <<>>]
OtherDocument == [description |-> "no projects here"]

\* the states of the three candidate files at module load
FileSystems ==
  {<<Absent, Absent, Absent>>,
   <<Parsed(ShopDocument), Absent, Absent>>,
   <<Unparseable, Absent, Absent>>,
   <<Unparseable, Parsed(ShopDocument), Absent>>,
   <<Absent, Parsed(OtherDocument), Parsed(ShopDocument)>>}

\* the candidate after a failed one: the loop goes on with the next path
afterFailure_stop(i) == Len(configPaths) + 1

afterFailure(i) == i + 1

\* loadExternalRules(): the candidates are visited in order; an existing
\* file that parses ends the search with its projects (or {}), an existing
\* file that fails is logged as an error and the search goes on
RECURSIVE loadFrom(_, _, _)
loadFrom(files, i, logged) ==
  IF i > Len(configPaths)
  THEN [projects |-> <<>>,
        log |-> Append(logged, [level |-> "info", message |-> "No external project rules configuration found, using built-in defaults"])]
  ELSE IF ~files[i].exists THEN loadFrom(files, i + 1, logged)
  ELSE IF files[i].parses
       THEN [projects |-> IF has(files[i].config, "projects")
                          THEN files[i].config.projects ELSE <<>>,
             log |-> Append(logged, [level |-> "info", message |-> "Loaded project-specific rules from", path |-> configPaths[i]])]
       ELSE loadFrom(files, afterFailure(i),
                     Append(logged, [level |-> "error", message |-> "Failed to load project rules from", path |-> configPaths[i]]))

loadExternalRules(files) == loadFrom(files, 1, <<>>)

\* PROJECT_SPECIFIC_RULES[String(projectIdentifier)] when truthy, else the
\* first entry whose own projectIdentifier is strictly equal to the argument
getProjectSpecificRules(projectIdentifier) ==
  LET own == {i \in 1..Len(PROJECT_SPECIFIC_RULES) :
                PROJECT_SPECIFIC_RULES[i].key = projectIdentifier.v}
      same == {i \in 1..Len(PROJECT_SPECIFIC_RULES) :
                 PROJECT_SPECIFIC_RULES[i].config.projectIdentifier = projectIdentifier}
  IN IF own # {}
     THEN [kind |-> "config", config |-> PROJECT_SPECIFIC_RULES[CHOOSE i \in own : TRUE].config]
     ELSE IF projectIdentifier.v \in ObjectPrototypeKeys
          THEN [kind |-> "inherited"]
          ELSE IF same # {}
               THEN [kind |-> "config",
                     config |-> PROJECT_SPECIFIC_RULES[CHOOSE i \in same :
                                                         \A j \in same : i <= j].config]
               ELSE [kind |-> "null"]

\* getConfiguredProjects(): one summary for every configuration of the map
\* (the description, which the configurations here do not carry, left out)
getConfiguredProjects ==
  [i \in 1..Len(PROJECT_SPECIFIC_RULES) |->
     [identifier |-> PROJECT_SPECIFIC_RULES[i].config.projectIdentifier,
      name |-> PROJECT_SPECIFIC_RULES[i].config.projectName,
      ruleCount |-> Len(PROJECT_SPECIFIC_RULES[i].config.rules)]]

\* mergeProjectRules(projectConfig, defaultRules): a new Map takes the
\* default rules that are not excluded, unless enableDefaultRules is false,
\* and then the rules of the configuration; its values are returned
mergeProjectRules(projectConfig, defaultRules) ==
  LET kept == IF has(projectConfig, "enableDefaultRules")
                 /\ projectConfig.enableDefaultRules = FALSE
              THEN <<>>
              ELSE SelectSeq(defaultRules,
                             LAMBDA rule :
                               ~(has(projectConfig, "excludeDefaultRules")
                                  /\ inSeq(rule.id, projectConfig.excludeDefaultRules)))
      all == kept \o projectConfig.rules
      firstSets == SelectSeq([i \in 1..Len(all) |-> i],
                             LAMBDA i : \A j \in 1..(i - 1) : all[j].id # all[i].id)
      lastSet(id) == LET sets == SelectSeq(all, LAMBDA rule : rule.id = id)
                     IN sets[Len(sets)]
  IN [k \in 1..Len(firstSets) |-> lastSet(all[firstSets[k]].id)]

(***************************************************************************)
(* gitlab-helpers.ts: the aggregation.                                     *)
(***************************************************************************)
\* mergeRuleSets(...ruleSets), ruleSets being the sequence of the rule
\* arrays: every rule is put into a Map by mergedRules.set(rule.id, rule),
\* array after array, and the values of the Map are returned.  A Map keeps
\* its keys in the order of their first set and holds for each key the value
\* of its last set.
mergeRuleSets_concat(ruleSets) == flatten(ruleSets)

\* a Map that moves a key to the end when it is set again
mergeRuleSets_lastSeen(ruleSets) ==
  LET all == flatten(ruleSets)
      lastSets == SelectSeq([i \in 1..Len(all) |-> i],
                            LAMBDA i : \A j \in (i + 1)..Len(all) : all[j].id # all[i].id)
  IN [k \in 1..Len(lastSets) |-> all[lastSets[k]]]

mergeRuleSets(ruleSets) ==
  LET all == flatten(ruleSets)
      firstSets == SelectSeq([i \in 1..Len(all) |-> i],
                             LAMBDA i : \A j \in 1..(i - 1) : all[j].id # all[i].id)
      lastSet(id) == LET sets == SelectSeq(all, LAMBDA rule : rule.id = id)
                     IN sets[Len(sets)]
  IN [k \in 1..Len(firstSets) |-> lastSet(all[firstSets[k]].id)]

\* changes.changes.map(change => change.new_path || change.old_path).filter(Boolean)
changedFilesOf(changes) ==
  LET paths == [i \in 1..Len(changes.changes) |->
                  IF changes.changes[i].new_path # "" THEN changes.changes[i].new_path
                  ELSE changes.changes[i].old_path]
  IN SelectSeq(paths, LAMBDA p : p # "")

\* filePath.split('/').pop() || filePath
fileNameOf(filePath) ==
  IF lastSegment(filePath) # "" THEN lastSegment(filePath) ELSE filePath

\* the types the file-specific rules are computed for: the array given to
\* the call, as it is before the additional types are pushed
typesForFiles_shared(types) == detectedTypes

typesForFiles(types) == types

\* the file-specific rules of the changed files, for the types given
fileSpecificRulesOf(changes, types) ==
  IF has(changes, "changes") /\ Len(changes.changes) > 0
  THEN LET changedFiles == changedFilesOf(changes)
       IN mergeRuleSets([i \in 1..Len(changedFiles) |->
                           getApplicableRules(fileNameOf(changedFiles[i]),
                                              typesForFiles(types), FALSE)])
  ELSE <<>>

\* mr.project?.path_with_namespace || mr.project_id
projectPathOf(mr) ==
  IF has(mr, "project") /\ has(mr.project, "path_with_namespace")
     /\ mr.project.path_with_namespace # ""
  THEN Str(mr.project.path_with_namespace)
  ELSE mr.project_id

projectRulesOf_excluded(projectConfig) ==
  IF has(projectConfig, "excludeDefaultRules")
  THEN SelectSeq(projectConfig.rules,
                 LAMBDA rule : ~inSeq(rule.id, projectConfig.excludeDefaultRules))
  ELSE projectConfig.rules

\* projectSpecificRules = projectConfig.rules
projectRulesOf(projectConfig) == projectConfig.rules

\* every additional type is pushed, those that the array holds too
pushAdditionalTypes_all(projectConfig, types) ==
  IF has(projectConfig, "additionalProjectTypes")
  THEN types \o projectConfig.additionalProjectTypes
  ELSE types

\* detectedTypes.push(...additionalTypes): the array after the push
pushAdditionalTypes(projectConfig, types) ==
  IF has(projectConfig, "additionalProjectTypes")
  THEN types \o SelectSeq(projectConfig.additionalProjectTypes,
                          LAMBDA type : ~inSeq(type, types))
  ELSE types

\* the default rules after the exclusion step of the project configuration
applyExclusion(projectConfig, defaultRules) ==
  IF /\ ~(has(projectConfig, "enableDefaultRules") /\ projectConfig.enableDefaultRules = FALSE)
     /\ has(projectConfig, "excludeDefaultRules")
     /\ Len(projectConfig.excludeDefaultRules) > 0
  THEN SelectSeq(defaultRules,
                 LAMBDA rule : ~inSeq(rule.id, projectConfig.excludeDefaultRules))
  ELSE defaultRules

\* getApplicableRules('', ['*'], true).filter(rule => rule.projectTypes?.includes('*'))
\* only the two universal rules that the type catalog lists as defaults
universalRules_two ==
  SelectSeq(CODE_REVIEW_RULES,
            LAMBDA rule : rule.id \in {"no-hardcoded-secrets", "input-validation"})

universalRules ==
  SelectSeq(getApplicableRules("", <<"*">>, TRUE),
            LAMBDA rule : inSeq("*", rule.projectTypes))

\* whose array the detectedTypes argument is: the review tool hands over the
\* array that detectProjectTypes has just built, an array of the caller's
\* own; the name of a key stands for the additionalProjectTypes list of the
\* configuration under that key
callersArray_stored == "backend/api-service"

callersArray == "caller"

\* the configuration map after detectedTypes.push(...additionalTypes): the
\* push writes into the array that the argument refers to
storeAfterPush(owner, additionalTypes) ==
  IF owner = "caller" THEN PROJECT_SPECIFIC_RULES
  ELSE [i \in 1..Len(PROJECT_SPECIFIC_RULES) |->
          IF /\ PROJECT_SPECIFIC_RULES[i].key = owner
             /\ has(PROJECT_SPECIFIC_RULES[i].config, "additionalProjectTypes")
          THEN [PROJECT_SPECIFIC_RULES[i] EXCEPT
                  !.config.additionalProjectTypes = @ \o additionalTypes]
          ELSE PROJECT_SPECIFIC_RULES[i]]

\* the configuration map after collectMergeRequestRules: its one write is
\* the push of the additional types
storeAfterCollect(mr, types, owner) ==
  LET found == getProjectSpecificRules(projectPathOf(mr))
  IN IF /\ ~getDefaultRulesForProjectTypes(types).threw
        /\ found.kind = "config"
        /\ has(found.config, "additionalProjectTypes")
     THEN storeAfterPush(owner,
                         SelectSeq(found.config.additionalProjectTypes,
                                   LAMBDA type : ~inSeq(type, types)))
     ELSE PROJECT_SPECIFIC_RULES

\* the call threw: nothing is returned; types is the caller's array as the
\* call left it
Thrown(types) == [threw |-> TRUE, detectedTypes |-> types]

\* collectMergeRequestRules(mr, changes, detectedTypes): what it returns, and
\* the caller's array after the call (field detectedTypes)
collectMergeRequestRules(mr, changes, types) ==
  LET firstDefaults == getDefaultRulesForProjectTypes(types)
      fileSpecificRules == fileSpecificRulesOf(changes, types)
      found == getProjectSpecificRules(projectPathOf(mr))
  IN IF firstDefaults.threw THEN Thrown(types)
     ELSE IF found.kind = "null"
          THEN [threw |-> FALSE,
                allRules |-> mergeRuleSets(<< <<>>, fileSpecificRules,
                                              firstDefaults.rules, universalRules >>),
                projectSpecificRules |-> <<>>,
                fileSpecificRules |-> fileSpecificRules,
                hasProjectConfig |-> FALSE,
                detectedTypes |-> types]
          ELSE IF found.kind = "inherited"
               \* projectConfig is a member of Object.prototype: its rules are
               \* undefined and mergeRuleSets throws on ruleSet.forEach
               THEN Thrown(types)
               ELSE LET projectConfig == found.config
                        enlarged == pushAdditionalTypes(projectConfig, types)
                        defaults == IF has(projectConfig, "additionalProjectTypes")
                                    THEN getDefaultRulesForProjectTypes(enlarged)
                                    ELSE firstDefaults
                    IN IF defaults.threw THEN Thrown(enlarged)
                       ELSE [threw |-> FALSE,
                             allRules |->
                               mergeRuleSets(<< projectRulesOf(projectConfig), fileSpecificRules,
                                                applyExclusion(projectConfig, defaults.rules),
                                                universalRules >>),
                             projectSpecificRules |-> projectRulesOf(projectConfig),
                             fileSpecificRules |-> fileSpecificRules,
                             hasProjectConfig |-> TRUE,
                             projectConfig |-> projectConfig,
                             detectedTypes |-> enlarged]

(***************************************************************************)
(* rules.ts and gitlab-helpers.ts: the three review profiles.              *)
(***************************************************************************)
startsWith(s, prefix) ==
  Len(prefix) <= Len(s) /\ SubSeq(s, 1, Len(prefix)) = prefix

\* rule.projectTypes?.some(pt => pt === '*' || projectTypes.includes(pt))
\*   || rule.projectTypes?.length === 0
profileAppliesToType(rule, projectTypes) ==
  \/ \E i \in 1..Len(rule.projectTypes) :
       rule.projectTypes[i] = "*" \/ inSeq(rule.projectTypes[i], projectTypes)
  \/ Len(rule.projectTypes) = 0

getCodeStyleOptimizationRules(projectTypes) ==
  LET styleRules == SelectSeq(CODE_REVIEW_RULES, LAMBDA rule : rule.category = "style")
      bestPracticeRules ==
        SelectSeq(CODE_REVIEW_RULES,
                  LAMBDA rule :
                    /\ rule.category = "best-practice"
                    /\ \/ includes(rule.id, "naming") \/ includes(rule.id, "duplication")
                       \/ includes(rule.id, "function") \/ includes(rule.id, "api"))
  IN SelectSeq(styleRules \o bestPracticeRules,
               LAMBDA rule : profileAppliesToType(rule, projectTypes))

\* the security rules without those whose id starts with 'professional-'
getGeneralSecurityScanRules_reserved(projectTypes) ==
  SelectSeq(CODE_REVIEW_RULES,
            LAMBDA rule : /\ rule.category = "security"
                          /\ ~startsWith(rule.id, "professional-")
                          /\ profileAppliesToType(rule, projectTypes))

getGeneralSecurityScanRules(projectTypes) ==
  LET securityRules == SelectSeq(CODE_REVIEW_RULES, LAMBDA rule : rule.category = "security")
  IN SelectSeq(securityRules, LAMBDA rule : profileAppliesToType(rule, projectTypes))

\* the optional parameter customRules: not given, or an array of rules
NoCustomRules == [given |-> FALSE]
Custom(rules) == [given |-> TRUE, rules |-> rules]

customSecurityRulesOf_all(customRules) == customRules

\* customRules.filter(rule => rule.category === 'security')
customSecurityRulesOf(customRules) ==
  SelectSeq(customRules, LAMBDA rule : rule.category = "security")

getProfessionalSecurityScanRules(projectTypes, customRules) ==
  LET professionalRules ==
        SelectSeq(CODE_REVIEW_RULES,
                  LAMBDA rule : startsWith(rule.id, "professional-")
                                  /\ rule.category = "security")
      applicableRules ==
        SelectSeq(professionalRules, LAMBDA rule : profileAppliesToType(rule, projectTypes))
  IN IF customRules.given /\ Len(customRules.rules) > 0
     THEN applicableRules \o customSecurityRulesOf(customRules.rules)
     ELSE applicableRules

\* the rules of the project that a profile keeps
styleRulesOf(projectConfig) ==
  SelectSeq(projectConfig.rules,
            LAMBDA rule : \/ rule.category = "style"
                          \/ rule.category = "best-practice" /\ includes(rule.id, "style"))

securityRulesOf(projectConfig) ==
  SelectSeq(projectConfig.rules, LAMBDA rule : rule.category = "security")

\* the part the three collectors share: the lookup of the project, its rules
\* of the profile (those of style when ofStyle, else those of security),
\* and the merge with the rules of the profile
collectProfile(mr, profileRules, ofStyle) ==
  LET found == getProjectSpecificRules(projectPathOf(mr))
      ownRules(projectConfig) ==
        IF ofStyle THEN styleRulesOf(projectConfig) ELSE securityRulesOf(projectConfig)
  IN IF found.kind = "null"
     THEN [threw |-> FALSE,
           allRules |-> mergeRuleSets(<< <<>>, profileRules >>),
           projectSpecificRules |-> <<>>,
           hasProjectConfig |-> FALSE]
     ELSE IF found.kind = "inherited"
          \* projectConfig.rules is undefined: projectConfig.rules.filter throws
          THEN [threw |-> TRUE]
          ELSE [threw |-> FALSE,
                allRules |-> mergeRuleSets(<< ownRules(found.config), profileRules >>),
                projectSpecificRules |-> ownRules(found.config),
                hasProjectConfig |-> TRUE,
                projectConfig |-> found.config]

collectCodeStyleOptimizationRules(mr, changes, types) ==
  collectProfile(mr, getCodeStyleOptimizationRules(types), TRUE)

collectGeneralSecurityScanRules(mr, changes, types) ==
  collectProfile(mr, getGeneralSecurityScanRules(types), FALSE)

collectProfessionalSecurityScanRules(mr, changes, types, customRules) ==
  LET result == collectProfile(mr, getProfessionalSecurityScanRules(types, customRules),
                               FALSE)
      returned == IF customRules.given THEN customRules.rules ELSE <<>>
  IN IF result.threw THEN result
     ELSE [f \in DOMAIN result \cup {"customRules"} |->
             IF f = "customRules" THEN returned ELSE result[f]]

(***************************************************************************)
(* rules.ts: the report.  The text is modelled line by line: a line is the *)
(* record of the values that the template string of the line interpolates; *)
(* an emoji is written by its name.                                        *)
(***************************************************************************)
getCategoryEmoji(category) ==
  CASE category = "security" -> "lock"
    [] category = "performance" -> "high-voltage"
    [] category = "maintainability" -> "wrench"
    [] category = "style" -> "palette"
    [] category = "best-practice" -> "sparkles"
    [] OTHER -> "pushpin"

getSeverityEmoji(severity) ==
  CASE severity = "error" -> "police-light"
    [] severity = "warning" -> "warning-sign"
    [] severity = "info" -> "information"
    [] OTHER -> "memo"

toUpperCase(category) ==
  CASE category = "security" -> "SECURITY"
    [] category = "performance" -> "PERFORMANCE"
    [] category = "maintainability" -> "MAINTAINABILITY"
    [] category = "style" -> "STYLE"
    [] category = "best-practice" -> "BEST-PRACTICE"

\* the keys of groupedByCategory, in the order Object.entries gives them: the
\* order in which the reduce created them
categoriesOf(rules) ==
  LET firstOf == SelectSeq([i \in 1..Len(rules) |-> i],
                           LAMBDA i : \A j \in 1..(i - 1) : rules[j].category # rules[i].category)
  IN [k \in 1..Len(firstOf) |-> rules[firstOf[k]].category]

\* the rules of a category, sorted by severity
categoryRulesOf_sorted(rules, category) ==
  sortBySeverity(SelectSeq(rules, LAMBDA rule : rule.category = category))

\* groupedByCategory[category]: the rules of the category as the reduce
\* pushed them
categoryRulesOf(rules, category) ==
  SelectSeq(rules, LAMBDA rule : rule.category = category)

formatRulesOutput(rules) ==
  IF Len(rules) = 0 THEN <<[line |-> "none", text |-> "No applicable rules found."]>>
  ELSE LET ruleLine(rule) ==
             [line |-> "rule", severityEmoji |-> getSeverityEmoji(rule.severity),
              title |-> rule.title,
              files |-> IF Len(rule.applicableFiles) > 0 THEN rule.applicableFiles
                        ELSE <<"All">>]
           group(category) ==
             LET categoryRules == categoryRulesOf(rules, category)
             IN <<[line |-> "category", emoji |-> getCategoryEmoji(category),
                   category |-> toUpperCase(category), rules |-> Len(categoryRules)]>>
                  \o [i \in 1..Len(categoryRules) |-> ruleLine(categoryRules[i])]
           categories == categoriesOf(rules)
       IN <<[line |-> "header", total |-> Len(rules)]>>
            \o flatten([c \in 1..Len(categories) |-> group(categories[c])])

(***************************************************************************)
(* tools/gitlab.ts and services/lark.ts: write_gitlab_mr_note.  The tool   *)
(* runs from one await to the next: phase "writeNote" awaits               *)
(* GitlabService.writeNote, "fetchInfo" awaits getMergeRequest and         *)
(* getProject, "sendToWebhook" awaits the fetch of one attempt.            *)
(***************************************************************************)
lowerChar(c) ==
  CASE c = "A" -> "a" [] c = "B" -> "b" [] c = "C" -> "c" [] c = "D" -> "d"
    [] c = "E" -> "e" [] c = "F" -> "f" [] c = "G" -> "g" [] c = "H" -> "h"
    [] c = "I" -> "i" [] c = "J" -> "j" [] c = "K" -> "k" [] c = "L" -> "l"
    [] c = "M" -> "m" [] c = "N" -> "n" [] c = "O" -> "o" [] c = "P" -> "p"
    [] c = "Q" -> "q" [] c = "R" -> "r" [] c = "S" -> "s" [] c = "T" -> "t"
    [] c = "U" -> "u" [] c = "V" -> "v" [] c = "W" -> "w" [] c = "X" -> "x"
    [] c = "Y" -> "y" [] c = "Z" -> "z" [] OTHER -> c

RECURSIVE toLowerCase(_)
toLowerCase(s) ==
  IF Len(s) = 0 THEN "" ELSE lowerChar(charAt(s, 1)) \o toLowerCase(dropChars(s, 1))

NotificationModes == {"gitlab_only", "lark_only", "both"}

\* the environment before the parameter, and its value as it is written
effectiveMode_environment(params, environment) ==
  IF has(environment, "GITLAB_NOTE_MODE") /\ environment.GITLAB_NOTE_MODE \in NotificationModes
  THEN environment.GITLAB_NOTE_MODE
  ELSE IF has(params, "notificationMode") THEN params.notificationMode
       ELSE "gitlab_only"

\* mode: params.notificationMode, else the lower-cased GITLAB_NOTE_MODE when
\* it is one of the three modes, else 'gitlab_only'
effectiveMode(params, environment) ==
  IF has(params, "notificationMode") THEN params.notificationMode
  ELSE IF /\ has(environment, "GITLAB_NOTE_MODE")
          /\ toLowerCase(environment.GITLAB_NOTE_MODE) \in NotificationModes
       THEN toLowerCase(environment.GITLAB_NOTE_MODE)
       ELSE "gitlab_only"

\* LarkClient.isConfigured() of the client that getLarkClient() builds:
\* !!webhookUrl && enableNotification !== false, with enableNotification =
\* (LARK_ENABLE_NOTIFICATION !== 'false')
isConfigured(environment) ==
  /\ has(environment, "LARK_WEBHOOK_URL") /\ environment.LARK_WEBHOOK_URL # ""
  /\ ~(has(environment, "LARK_ENABLE_NOTIFICATION")
         /\ environment.LARK_ENABLE_NOTIFICATION = "false")

maxRetries == 3

shouldRetryRequest(statusCode, attempt) ==
  IF attempt >= maxRetries THEN FALSE
  ELSE IF statusCode >= 500 /\ statusCode < 600 THEN TRUE
  ELSE IF statusCode = 429 THEN TRUE
  ELSE IF statusCode = 408 THEN TRUE
  ELSE IF statusCode >= 400 /\ statusCode < 500 THEN FALSE
  ELSE TRUE

shouldRetryApiError(code, attempt) ==
  IF attempt >= maxRetries THEN FALSE
  ELSE code \in {50001, 50002}

\* the locals before the tool runs, no environment, no webhook request
NoLocals ==
  [mode |-> "unset", gitlabResult |-> "null",
   larkResult |-> [sent |-> FALSE, error |-> "null"], attempt |-> 0]

NoEnvironment == [unset |-> TRUE]

NoRequests == [requests |-> 0, delivered |-> FALSE, last |-> [kind |-> "none"]]

\* what the tool returns: the response text, by the parts that depend on
\* the run, or the text of the outer catch
response(l) ==
  [kind |-> "done", mode |-> l.mode,
   gitlabNote |-> l.gitlabResult # "null",
   lark |-> IF l.larkResult.sent THEN "sent"
            ELSE IF l.larkResult.error # "null" THEN "failed" ELSE "none",
   error |-> l.larkResult.error,
   hint |-> IF l.mode = "gitlab_only" THEN "gitlab only, no Lark notification"
            ELSE IF l.mode = "lark_only" THEN "Lark only, no GitLab note" ELSE "none"]

failed(message) == [kind |-> "failed", message |-> message]

\* the state a step of the tool leaves: the position, the locals, the result
Awaiting(position, l) == [phase |-> position, local |-> l, ret |-> <<>>]
Responded(l) == [phase |-> "returned", local |-> l, ret |-> response(l)]
Failed(l, message) == [phase |-> "returned", local |-> l, ret |-> failed(message)]

\* the error of the Lark section is thrown on in every mode
larkFailed_thrown(l, message) ==
  Failed([l EXCEPT !.larkResult.error = message], "Lark notification failed")

\* the catch of the Lark section: the error is kept in larkResult and is
\* thrown on to the outer catch in mode lark_only
larkFailed(l, message) ==
  LET kept == [l EXCEPT !.larkResult.error = message]
  IN IF l.mode = "lark_only"
     THEN Failed(kept, "Lark notification failed")
     ELSE Responded(kept)

\* if (mode === 'lark_only' || mode === 'both'): up to the await of the
\* merge request and the project, or to the response
larkSection(l, environment) ==
  IF l.mode \in {"lark_only", "both"}
  THEN IF isConfigured(environment) THEN Awaiting("fetchInfo", l)
       ELSE Responded([l EXCEPT !.larkResult.error = "Lark not configured"])
  ELSE Responded(l)

\* the note is written in every mode
gitlabSection_always(l, environment) == Awaiting("writeNote", l)

\* if (mode === 'gitlab_only' || mode === 'both'): up to the await of
\* writeNote, or on to the Lark section
gitlabSection(l, environment) ==
  IF l.mode \in {"gitlab_only", "both"} THEN Awaiting("writeNote", l)
  ELSE larkSection(l, environment)

\* one attempt more: the catch goes on while attempt <= maxRetries
afterAttempt_oneMore(outcome, attempt) ==
  IF outcome.kind = "api" /\ outcome.code = 0 THEN [next |-> "return"]
  ELSE IF attempt <= maxRetries THEN [next |-> "attempt", attempt |-> attempt + 1]
       ELSE [next |-> "return"]

\* sendToWebhook after the response of one attempt: the attempt that comes
\* next, or "return" when the loop is left.  An error thrown inside the try,
\* the one of a response that is not to be retried included, is caught by
\* the catch of the same try
afterAttempt(outcome, attempt) ==
  LET caught == IF attempt < maxRetries THEN [next |-> "attempt", attempt |-> attempt + 1]
                ELSE [next |-> "return"]
  IN CASE outcome.kind = "network" -> caught
       [] outcome.kind = "http" ->
            IF shouldRetryRequest(outcome.status, attempt)
            THEN [next |-> "attempt", attempt |-> attempt + 1]
            ELSE caught
       [] outcome.kind = "api" ->
            IF outcome.code = 0 THEN [next |-> "return"]
            ELSE IF shouldRetryApiError(outcome.code, attempt)
                 THEN [next |-> "attempt", attempt |-> attempt + 1]
                 ELSE caught

(***************************************************************************)
(* The requests the model makes.                                           *)
(***************************************************************************)
\* the sequences of at most n different elements of S
RECURSIVE SeqsUpTo(_, _)
SeqsUpTo(S, n) ==
  IF n = 0 THEN {<<>>}
  ELSE LET shorter == SeqsUpTo(S, n - 1)
       IN shorter \cup {Append(s, x) : s \in shorter, x \in S} 

NoRepeat(s) == \A i, j \in 1..Len(s) : i # j => s[i] # s[j]

\* changed files of a merge request: an edited TypeScript file, an edited Go
\* file, a deleted go.mod (no new_path), a renamed component
ChangeEntries ==
  {[new_path |-> "src/app.ts", old_path |-> "src/app.ts"],
   [new_path |-> "src/server.go", old_path |-> "src/server.go"],
   [new_path |-> "", old_path |-> "go.mod"],
   [new_path |-> "web/App.tsx", old_path |-> "web/App.jsx"]}

\* the changes object of a merge request; the last one has no changes field
ChangesObjects ==
  {[changes |-> s] : s \in {s \in SeqsUpTo(ChangeEntries, MaxChanges) : NoRepeat(s)}}
    \cup {[id |-> "mr-without-changes"]}

MergeRequests ==
  {[project |-> [path_with_namespace |-> "backend/api-service"], project_id |-> Num("7")],
   [project |-> [path_with_namespace |-> "blockchain/smart-contracts"], project_id |-> Num("8")],
   [project |-> [path_with_namespace |-> "acme/api"], project_id |-> Num("9")],
   [project |-> [path_with_namespace |-> "acme/shop"], project_id |-> Num("42")],
   [project |-> [path_with_namespace |-> "acme/mobile"], project_id |-> Num("11")],
   [project_id |-> Num("42")]}

\* detected-type arrays: "web" is a tag of rules that PROJECT_TYPES does not
\* define, "constructor" a string that is a member of every object
TypeArrays ==
  {<<>>, <<"*">>, <<"typescript">>, <<"go">>, <<"react", "typescript">>,
   <<"backend", "node">>, <<"web">>, <<"constructor">>}

FileNames == {"", "app.ts", "main.go", "go.mod.bak", "notes.txt"}

DetectionPaths ==
  {"a.tsx", "pkg.json", "README.md", "src/server.go", "src/components/App.tsx"}

FilePathLists == {s \in SeqsUpTo(DetectionPaths, MaxChanges) : NoRepeat(s)}

\* the rules given to formatRulesOutput: lists of catalog rules of two
\* categories and three severities, in any order
FormattedRules ==
  {CODE_REVIEW_RULES[r] : r \in {r \in 1..Len(CODE_REVIEW_RULES) :
     CODE_REVIEW_RULES[r].id \in
       {"environment-variables", "react-hooks-dependencies", "rust-concurrency", "sh-debugging", "ts-strict-mode"}}}

RuleLists == {s \in SeqsUpTo(FormattedRules, MaxFormatted) : NoRepeat(s)}

\* the changes given to a profile collector, which does not read them
ProfileChanges ==
  {[id |-> "mr-without-changes"],
   [changes |-> <<[new_path |-> "src/app.ts", old_path |-> "src/app.ts"]>>]}

\* custom rules of a professional review: one of the security category, one
\* of another category, one of another category under the id of a catalog rule
PciRule ==
  [id |-> "pci-dss-compliance", title |-> "PCI DSS Compliance",
   severity |-> "error", category |-> "security",
   applicableFiles |-> <<"**/payment/**">>, projectTypes |-> <<"*">>]

TeamNamingRule ==
  [id |-> "team-naming", title |-> "Team Naming", severity |-> "info",
   category |-> "style", applicableFiles |-> <<"*">>, projectTypes |-> <<"*">>]

RelaxedLoggingRule ==
  [id |-> "professional-logging-prohibition", title |-> "Relaxed Logging",
   severity |-> "info", category |-> "best-practice",
   applicableFiles |-> <<"*">>, projectTypes |-> <<"*">>]

CustomRuleArguments ==
  {NoCustomRules, Custom(<<>>), Custom(<<PciRule>>), Custom(<<TeamNamingRule>>),
   Custom(<<TeamNamingRule, PciRule>>), Custom(<<PciRule, RelaxedLoggingRule>>)}

\* the parameters of write_gitlab_mr_note: without and with notificationMode
NoteParams ==
  {[projectId |-> "acme/api", mergeRequestIid |-> 7, note |-> "LGTM"]}
    \cup {[projectId |-> "acme/api", mergeRequestIid |-> 7, note |-> "LGTM",
           notificationMode |-> mode] : mode \in NotificationModes}

\* process.env: nothing set; a mode in another case; a value that is no
\* mode; Lark without a webhook; Lark switched off
Environments ==
  {[NODE_ENV |-> "production"],
   [GITLAB_NOTE_MODE |-> "both", LARK_WEBHOOK_URL |-> "https://open.larksuite.com/hook/1"],
   [GITLAB_NOTE_MODE |-> "LARK_ONLY", LARK_WEBHOOK_URL |-> "https://open.larksuite.com/hook/1"],
   [GITLAB_NOTE_MODE |-> "all", LARK_WEBHOOK_URL |-> "https://open.larksuite.com/hook/1"],
   [GITLAB_NOTE_MODE |-> "Both"],
   [GITLAB_NOTE_MODE |-> "lark_only", LARK_WEBHOOK_URL |-> "https://open.larksuite.com/hook/1",
    LARK_ENABLE_NOTIFICATION |-> "false"]}

\* what one request to the webhook comes to: fetch throws; an HTTP status
\* that is not ok; HTTP ok with a result code
WebhookOutcomes ==
  {[kind |-> "network"]}
    \cup {[kind |-> "http", status |-> status] : status \in {400, 429, 500}}
    \cup {[kind |-> "api", code |-> code] : code \in {0, 50001, 19001}}

\* identifiers given to get_project_specific_rules: keys of the map, the
\* number and the string 42, an unknown project, a member of every object
ProjectIdentifiers ==
  {Str("backend/api-service"), Str("frontend/web-app"), Str("acme/shop"),
   Str("acme/legacy"), Num("42"), Str("42"), Str("acme/api"), Str("constructor")}

\* the types whose default rules are given to mergeProjectRules
MergedTypeArrays == {<<>>, <<"typescript">>, <<"backend", "node">>}

NotCalled == [called |-> FALSE]

(***************************************************************************)
(* The state machine.                                                      *)
(***************************************************************************)
Init ==
  /\ fileSystem \in FileSystems
  /\ log = loadExternalRules(fileSystem).log
  /\ PROJECT_SPECIFIC_RULES =
       objectSpread(BUILTIN_PROJECT_RULES, loadExternalRules(fileSystem).projects)
  /\ op = "none"
  /\ phase = "idle"
  /\ args = <<>>
  /\ ret = <<>>
  /\ detectedTypes = <<>>
  /\ repeat = NotCalled
  /\ rerun = NotCalled
  /\ env = NoEnvironment
  /\ local = NoLocals
  /\ gitlabNotes = <<>>
  /\ webhook = NoRequests

Request(name, arguments) ==
  /\ phase = "idle"
  /\ op' = name
  /\ phase' = "called"
  /\ args' = arguments
  /\ ret' = <<>>
  /\ repeat' = NotCalled
  /\ rerun' = NotCalled
  /\ UNCHANGED loaded

CallCollectMergeRequestRules ==
  \E mr \in MergeRequests, changes \in ChangesObjects, types \in TypeArrays :
    /\ Request("collectMergeRequestRules",
               [mr |-> mr, changes |-> changes, detectedTypes |-> types])
    /\ detectedTypes' = types
    /\ UNCHANGED noteTool

RunCollectMergeRequestRules ==
  /\ op = "collectMergeRequestRules" /\ phase = "called"
  /\ ret' = collectMergeRequestRules(args.mr, args.changes, detectedTypes)
  /\ detectedTypes' = ret'.detectedTypes
  /\ PROJECT_SPECIFIC_RULES' = storeAfterCollect(args.mr, detectedTypes, callersArray)
  /\ phase' = "returned"
  /\ UNCHANGED <<fileSystem, log, noteTool, op, args, repeat, rerun>>

\* the same request once more, with a fresh array of the same detected types
RepeatCollectMergeRequestRules ==
  /\ op = "collectMergeRequestRules" /\ phase = "returned"
  /\ repeat = NotCalled
  /\ repeat' = collectMergeRequestRules(args.mr, args.changes, args.detectedTypes)
  /\ PROJECT_SPECIFIC_RULES' = storeAfterCollect(args.mr, args.detectedTypes, callersArray)
  /\ UNCHANGED <<fileSystem, log, noteTool, op, phase, args, ret, detectedTypes, rerun>>

\* the request once more with the array that the first call left, as the
\* review tool's caller holds it
RerunCollectMergeRequestRules ==
  /\ op = "collectMergeRequestRules" /\ phase = "returned" /\ ~ret.threw
  /\ rerun = NotCalled
  /\ rerun' = collectMergeRequestRules(args.mr, args.changes, detectedTypes)
  /\ detectedTypes' = rerun'.detectedTypes
  /\ PROJECT_SPECIFIC_RULES' = storeAfterCollect(args.mr, detectedTypes, callersArray)
  /\ UNCHANGED <<fileSystem, log, noteTool, op, phase, args, ret, repeat>>

CallGetApplicableRules ==
  \E fileName \in FileNames, types \in TypeArrays, includeUniversal \in BOOLEAN :
    /\ Request("getApplicableRules",
               [fileName |-> fileName, projectTypes |-> types,
                includeUniversal |-> includeUniversal])
    /\ UNCHANGED <<detectedTypes, noteTool>>

RunGetApplicableRules ==
  /\ op = "getApplicableRules" /\ phase = "called"
  /\ ret' = getApplicableRules(args.fileName, args.projectTypes, args.includeUniversal)
  /\ phase' = "returned"
  /\ UNCHANGED <<loaded, noteTool, op, args, detectedTypes, repeat, rerun>>

CallGetDefaultRulesForProjectTypes ==
  \E types \in TypeArrays \cup {<<"go", "python">>, <<"unknown-type", "go">>} :
    /\ Request("getDefaultRulesForProjectTypes", [projectTypes |-> types])
    /\ UNCHANGED <<detectedTypes, noteTool>>

RunGetDefaultRulesForProjectTypes ==
  /\ op = "getDefaultRulesForProjectTypes" /\ phase = "called"
  /\ ret' = getDefaultRulesForProjectTypes(args.projectTypes)
  /\ phase' = "returned"
  /\ UNCHANGED <<loaded, noteTool, op, args, detectedTypes, repeat, rerun>>

CallDetectProjectType ==
  \E filePaths \in FilePathLists :
    /\ Request("detectProjectType", [filePaths |-> filePaths])
    /\ UNCHANGED <<detectedTypes, noteTool>>

RunDetectProjectType ==
  /\ op = "detectProjectType" /\ phase = "called"
  /\ ret' = detectProjectType(args.filePaths)
  /\ phase' = "returned"
  /\ UNCHANGED <<loaded, noteTool, op, args, detectedTypes, repeat, rerun>>

CallCollectCodeStyleOptimizationRules ==
  \E mr \in MergeRequests, changes \in ProfileChanges, types \in TypeArrays :
    /\ Request("collectCodeStyleOptimizationRules",
               [mr |-> mr, changes |-> changes, detectedTypes |-> types])
    /\ detectedTypes' = types
    /\ UNCHANGED noteTool

RunCollectCodeStyleOptimizationRules ==
  /\ op = "collectCodeStyleOptimizationRules" /\ phase = "called"
  /\ ret' = collectCodeStyleOptimizationRules(args.mr, args.changes, detectedTypes)
  /\ phase' = "returned"
  /\ UNCHANGED <<loaded, noteTool, op, args, detectedTypes, repeat, rerun>>

CallCollectGeneralSecurityScanRules ==
  \E mr \in MergeRequests, changes \in ProfileChanges, types \in TypeArrays :
    /\ Request("collectGeneralSecurityScanRules",
               [mr |-> mr, changes |-> changes, detectedTypes |-> types])
    /\ detectedTypes' = types
    /\ UNCHANGED noteTool

RunCollectGeneralSecurityScanRules ==
  /\ op = "collectGeneralSecurityScanRules" /\ phase = "called"
  /\ ret' = collectGeneralSecurityScanRules(args.mr, args.changes, detectedTypes)
  /\ phase' = "returned"
  /\ UNCHANGED <<loaded, noteTool, op, args, detectedTypes, repeat, rerun>>

CallCollectProfessionalSecurityScanRules ==
  \E mr \in MergeRequests, changes \in ProfileChanges, types \in TypeArrays,
     customRules \in CustomRuleArguments :
    /\ Request("collectProfessionalSecurityScanRules",
               [mr |-> mr, changes |-> changes, detectedTypes |-> types,
                customRules |-> customRules])
    /\ detectedTypes' = types
    /\ UNCHANGED noteTool

RunCollectProfessionalSecurityScanRules ==
  /\ op = "collectProfessionalSecurityScanRules" /\ phase = "called"
  /\ ret' = collectProfessionalSecurityScanRules(args.mr, args.changes, detectedTypes,
                                                  args.customRules)
  /\ phase' = "returned"
  /\ UNCHANGED <<loaded, noteTool, op, args, detectedTypes, repeat, rerun>>

CallFormatRulesOutput ==
  \E rules \in RuleLists :
    /\ Request("formatRulesOutput", [rules |-> rules])
    /\ UNCHANGED <<detectedTypes, noteTool>>

RunFormatRulesOutput ==
  /\ op = "formatRulesOutput" /\ phase = "called"
  /\ ret' = formatRulesOutput(args.rules)
  /\ phase' = "returned"
  /\ UNCHANGED <<loaded, noteTool, op, args, detectedTypes, repeat, rerun>>

CallWriteGitlabMrNote ==
  \E params \in NoteParams, environment \in Environments :
    /\ Request("write_gitlab_mr_note", params)
    /\ env' = environment
    /\ UNCHANGED <<detectedTypes, local, gitlabNotes, webhook>>

\* a step of the tool changes its position, its locals and its result
ToolStep(after) ==
  /\ phase' = after.phase
  /\ local' = after.local
  /\ ret' = after.ret
  /\ UNCHANGED <<loaded, op, args, detectedTypes, repeat, rerun, env>>

\* execute, up to the first await
StartWriteGitlabMrNote ==
  /\ op = "write_gitlab_mr_note" /\ phase = "called"
  /\ ToolStep(gitlabSection([local EXCEPT !.mode = effectiveMode(args, env)], env))
  /\ UNCHANGED <<gitlabNotes, webhook>>

\* GitlabService.writeNote returns the note it created, or throws
WriteNoteReturns ==
  /\ op = "write_gitlab_mr_note" /\ phase = "writeNote"
  /\ \/ /\ gitlabNotes' = Append(gitlabNotes, args.note)
        /\ ToolStep(larkSection([local EXCEPT !.gitlabResult = "note"], env))
     \/ /\ gitlabNotes' = gitlabNotes
        /\ ToolStep(Failed(local, "GitLab API error"))
  /\ UNCHANGED webhook

\* getMergeRequest and getProject return, and sendCardMessage goes to the
\* first attempt of sendToWebhook; or one of them throws
FetchInfoReturns ==
  /\ op = "write_gitlab_mr_note" /\ phase = "fetchInfo"
  /\ \/ ToolStep(Awaiting("sendToWebhook", [local EXCEPT !.attempt = 0]))
     \/ ToolStep(larkFailed(local, "GitLab API error"))
  /\ UNCHANGED <<gitlabNotes, webhook>>

\* one attempt of sendToWebhook: the request is sent and answered; when
\* the loop is left sendCardMessage returns and larkResult.sent is set
WebhookAttempt ==
  /\ op = "write_gitlab_mr_note" /\ phase = "sendToWebhook"
  /\ \E outcome \in WebhookOutcomes :
       LET after == afterAttempt(outcome, local.attempt)
       IN /\ webhook' = [requests |-> webhook.requests + 1,
                         delivered |-> webhook.delivered
                                         \/ (outcome.kind = "api" /\ outcome.code = 0),
                         last |-> outcome]
          /\ IF after.next = "attempt"
             THEN ToolStep(Awaiting("sendToWebhook", [local EXCEPT !.attempt = after.attempt]))
             ELSE ToolStep(Responded([local EXCEPT !.larkResult.sent = TRUE]))
  /\ UNCHANGED gitlabNotes

CallGetProjectSpecificRules ==
  \E projectIdentifier \in ProjectIdentifiers :
    /\ Request("getProjectSpecificRules", [projectIdentifier |-> projectIdentifier])
    /\ UNCHANGED <<detectedTypes, noteTool>>

RunGetProjectSpecificRules ==
  /\ op = "getProjectSpecificRules" /\ phase = "called"
  /\ ret' = getProjectSpecificRules(args.projectIdentifier)
  /\ phase' = "returned"
  /\ UNCHANGED <<loaded, noteTool, op, args, detectedTypes, repeat, rerun>>

CallGetConfiguredProjects ==
  /\ Request("getConfiguredProjects", <<>>)
  /\ UNCHANGED <<detectedTypes, noteTool>>

RunGetConfiguredProjects ==
  /\ op = "getConfiguredProjects" /\ phase = "called"
  /\ ret' = getConfiguredProjects
  /\ phase' = "returned"
  /\ UNCHANGED <<loaded, noteTool, op, args, detectedTypes, repeat, rerun>>

\* mergeProjectRules for a configuration of the map and the default rules
\* of some types
CallMergeProjectRules ==
  \E i \in 1..Len(PROJECT_SPECIFIC_RULES), types \in MergedTypeArrays :
    /\ Request("mergeProjectRules",
               [projectConfig |-> PROJECT_SPECIFIC_RULES[i].config,
                defaultRules |-> getDefaultRulesForProjectTypes(types).rules])
    /\ UNCHANGED <<detectedTypes, noteTool>>

RunMergeProjectRules ==
  /\ op = "mergeProjectRules" /\ phase = "called"
  /\ ret' = mergeProjectRules(args.projectConfig, args.defaultRules)
  /\ phase' = "returned"
  /\ UNCHANGED <<loaded, noteTool, op, args, detectedTypes, repeat, rerun>>

\* the request is over: its arguments and result are dropped
Done ==
  /\ phase = "returned"
  /\ op' = "none"
  /\ phase' = "idle"
  /\ args' = <<>>
  /\ ret' = <<>>
  /\ detectedTypes' = <<>>
  /\ repeat' = NotCalled
  /\ rerun' = NotCalled
  /\ env' = NoEnvironment
  /\ local' = NoLocals
  /\ gitlabNotes' = <<>>
  /\ webhook' = NoRequests
  /\ UNCHANGED loaded

Next ==
  \/ Done
  \/ CallCollectMergeRequestRules
  \/ RunCollectMergeRequestRules
  \/ RepeatCollectMergeRequestRules
  \/ CallGetApplicableRules
  \/ RunGetApplicableRules
  \/ CallGetDefaultRulesForProjectTypes
  \/ RunGetDefaultRulesForProjectTypes
  \/ CallDetectProjectType
  \/ RunDetectProjectType
  \/ CallGetProjectSpecificRules
  \/ RunGetProjectSpecificRules
  \/ CallGetConfiguredProjects
  \/ RunGetConfiguredProjects
  \/ CallMergeProjectRules
  \/ RunMergeProjectRules
  \/ CallFormatRulesOutput
  \/ RunFormatRulesOutput
  \/ CallWriteGitlabMrNote
  \/ StartWriteGitlabMrNote
  \/ WriteNoteReturns
  \/ FetchInfoReturns
  \/ WebhookAttempt
  \/ CallCollectCodeStyleOptimizationRules
  \/ RunCollectCodeStyleOptimizationRules
  \/ CallCollectGeneralSecurityScanRules
  \/ RunCollectGeneralSecurityScanRules
  \/ CallCollectProfessionalSecurityScanRules
  \/ RunCollectProfessionalSecurityScanRules

Spec == Init /\ [][Next]_vars

\* the requests to collectMergeRequestRules alone, each followed or not by
\* a second call with the array that the first call left
RerunNext ==
  \/ Done
  \/ CallCollectMergeRequestRules
  \/ RunCollectMergeRequestRules
  \/ RerunCollectMergeRequestRules

RerunSpec == Init /\ [][RerunNext]_vars

\* the requests to write_gitlab_mr_note alone, every request to the webhook
\* being answered: fetch returns a response or throws
NoteNext ==
  \/ Done
  \/ CallWriteGitlabMrNote
  \/ StartWriteGitlabMrNote
  \/ WriteNoteReturns
  \/ FetchInfoReturns
  \/ WebhookAttempt

FairSpec == Init /\ [][NoteNext]_vars /\ WF_vars(WebhookAttempt)

(***************************************************************************)
(* Properties.                                                             *)
(***************************************************************************)
idsOf(rules) == [i \in 1..Len(rules) |-> rules[i].id]

hasId(id, rules) == \E i \in 1..Len(rules) : rules[i].id = id

noDuplicateIds(rules) ==
  \A i, j \in 1..Len(rules) : rules[i].id = rules[j].id => i = j

\* collectMergeRequestRules has returned a result
CollectReturned ==
  op = "collectMergeRequestRules" /\ phase = "returned" /\ ~ret.threw

\* ... for a project that has a configuration
CollectReturnedWithConfig == CollectReturned /\ ret.hasProjectConfig

\* the default rules that went into the merge of the returned result
mergedDefaultRules ==
  LET defaults == getDefaultRulesForProjectTypes(ret.detectedTypes).rules
  IN IF ret.hasProjectConfig THEN applyExclusion(ret.projectConfig, defaults)
     ELSE defaults

\* C1, precedence: a rule id of the project's own rules that also occurs in
\* the file-specific, default or universal rules stands in allRules with the
\* project's rule, field by field.
C1_ProjectRuleWins ==
  CollectReturnedWithConfig =>
    \A i \in 1..Len(ret.projectSpecificRules) :
      LET own == ret.projectSpecificRules[i]
      IN (\/ hasId(own.id, ret.fileSpecificRules)
          \/ hasId(own.id, mergedDefaultRules)
          \/ hasId(own.id, universalRules))
         => \A k \in 1..Len(ret.allRules) :
              ret.allRules[k].id = own.id => ret.allRules[k] = own

\* C2, exclusion: an id of excludeDefaultRules that is not the id of one of
\* the project's own rules is not in allRules, whatever the changed files
\* and the detected types.
C2_ExcludedIdsAbsent ==
  (CollectReturnedWithConfig /\ has(ret.projectConfig, "excludeDefaultRules")) =>
    \A e \in 1..Len(ret.projectConfig.excludeDefaultRules) :
      LET id == ret.projectConfig.excludeDefaultRules[e]
      IN ~hasId(id, ret.projectConfig.rules) => ~hasId(id, ret.allRules)

\* C3, project rules are always included: every id of the rules of the
\* configuration found is an id of allRules.
C3_ProjectRulesIncluded ==
  CollectReturnedWithConfig =>
    \A i \in 1..Len(ret.projectConfig.rules) :
      hasId(ret.projectConfig.rules[i].id, ret.allRules)

\* the case of C3: a configuration that disables the default rules and has an
\* exclusion list, with changed files and detected types, and the project's
\* rule in the result; and a configuration one of whose own rules is on its
\* own exclusion list
C3_Witness ==
  /\ CollectReturnedWithConfig
  /\ has(ret.projectConfig, "excludeDefaultRules")
  /\ \/ /\ has(ret.projectConfig, "enableDefaultRules")
        /\ ret.projectConfig.enableDefaultRules = FALSE
        /\ Len(ret.fileSpecificRules) > 0
        /\ Len(args.detectedTypes) > 0
        /\ hasId("api-rate-limiting", ret.allRules)
     \/ \E i \in 1..Len(ret.projectConfig.rules) :
          /\ inSeq(ret.projectConfig.rules[i].id, ret.projectConfig.excludeDefaultRules)
          /\ hasId(ret.projectConfig.rules[i].id, ret.allRules)

\* C4, dedup: no two entries of allRules have the same id, and none of the
\* list mergeRuleSets returned for the rule sets of the changed files.
C4_NoDuplicateIds ==
  CollectReturned =>
    noDuplicateIds(ret.allRules) /\ noDuplicateIds(ret.fileSpecificRules)

\* the case of C4: the rule sets merged held one id several times
C4_Witness ==
  /\ CollectReturned
  /\ \E i \in 1..Len(ret.fileSpecificRules) :
       /\ hasId(ret.fileSpecificRules[i].id, mergedDefaultRules)
       /\ hasId(ret.fileSpecificRules[i].id, universalRules)
  /\ Len(args.changes.changes) = 2

\* C5, disabling defaults: with enableDefaultRules = false every rule of
\* allRules is one of the project's own rules, file-specific for a changed
\* file or universal; no rule is there only as a default of a type.
C5_NoDefaultsWhenDisabled ==
  (/\ CollectReturnedWithConfig
   /\ has(ret.projectConfig, "enableDefaultRules")
   /\ ret.projectConfig.enableDefaultRules = FALSE) =>
    \A k \in 1..Len(ret.allRules) :
      \/ hasId(ret.allRules[k].id, ret.projectConfig.rules)
      \/ hasId(ret.allRules[k].id, ret.fileSpecificRules)
      \/ hasId(ret.allRules[k].id, universalRules)

ApplicableReturned == op = "getApplicableRules" /\ phase = "returned"

\* C7, applicability as specified: the type test, and then either a file
\* pattern that matches the file name by the rule of detection (wildcard
\* pattern as an unanchored expression, any other pattern as a substring), or
\* includeUniversal with the file patterns being just '*'
applicableAsSpecified(rule, fileName, projectTypes, includeUniversal) ==
  /\ appliesToProjectType(rule, projectTypes)
  /\ \/ \E i \in 1..Len(rule.applicableFiles) :
          detectionPatternMatches(rule.applicableFiles[i], fileName)
     \/ includeUniversal /\ rule.applicableFiles = <<"*">>

\* the whole equivalence of C7: getApplicableRules returns a catalog rule
\* if and only if the rule is applicable as specified
ApplicableIffSpecified ==
  ApplicableReturned =>
    \A r \in 1..Len(CODE_REVIEW_RULES) :
      inSeq(CODE_REVIEW_RULES[r], ret)
        <=> applicableAsSpecified(CODE_REVIEW_RULES[r], args.fileName,
                                  args.projectTypes, args.includeUniversal)

\* C7, applicability, in the case the claim singles out: with
\* includeUniversal = true every rule getApplicableRules returns is
\* applicable as specified, so a rule of a matching type whose file patterns
\* do not match the file name and are not '*' is not returned.
C7_UniversalKeepsFileTest ==
  (ApplicableReturned /\ args.includeUniversal) =>
    \A k \in 1..Len(ret) :
      applicableAsSpecified(ret[k], args.fileName, args.projectTypes, TRUE)

\* C8, sort: in the list getApplicableRules returns no rule stands before a
\* rule of a more severe level: the errors, then the warnings, then the infos.
C8_SortedBySeverity ==
  ApplicableReturned =>
    \A i, j \in 1..Len(ret) :
      i < j => severityOrder(ret[i].severity) <= severityOrder(ret[j].severity)

\* the case of C8: rules of the three levels are returned, and they stand in
\* the catalog in another order than the one returned
C8_Witness ==
  /\ ApplicableReturned
  /\ \A s \in {"error", "warning", "info"} : \E i \in 1..Len(ret) : ret[i].severity = s
  /\ ret # SelectSeq(CODE_REVIEW_RULES, LAMBDA rule : inSeq(rule, ret))

\* getDefaultRulesForProjectTypes has been called and is over
DefaultsReturned == op = "getDefaultRulesForProjectTypes" /\ phase = "returned"

\* C9, default rules: for every list of types the call raises no error and
\* returns exactly the catalog rules whose id is on the defaultRules list of
\* one of the given types PROJECT_TYPES defines, each once.
C9_DefaultRulesExact ==
  DefaultsReturned =>
    /\ ~ret.threw
    /\ noDuplicateIds(ret.rules)
    /\ {ret.rules[i] : i \in 1..Len(ret.rules)}
         = {CODE_REVIEW_RULES[r] : r \in {r \in 1..Len(CODE_REVIEW_RULES) :
              \E t \in 1..Len(PROJECT_TYPES) :
                /\ inSeq(PROJECT_TYPES[t].typeId, args.projectTypes)
                /\ inSeq(CODE_REVIEW_RULES[r].id, PROJECT_TYPES[t].defaultRules)}}

\* detectProjectType has returned
DetectReturned == op = "detectProjectType" /\ phase = "returned"

\* no pattern of any project type matches any of the file paths
noPatternMatches(filePaths) ==
  \A t \in 1..Len(PROJECT_TYPES) : \A p \in 1..Len(PROJECT_TYPES[t].patterns) :
    \A f \in 1..Len(filePaths) :
      ~detectionPatternMatches(PROJECT_TYPES[t].patterns[p], filePaths[f])

\* C10 as stated, detection totality: with no file, or with files that match
\* no pattern, detectProjectType returns a non-empty list that holds '*'.
C10_NeverEmpty ==
  (DetectReturned /\ noPatternMatches(args.filePaths)) =>
    ret # <<>> /\ inSeq("*", ret)

\* C10 as amended: with no file, or with files that match no pattern,
\* detectProjectType returns the empty list, and no list it returns holds
\* the wildcard tag '*'.
C10_EmptyWhenNothingMatches ==
  DetectReturned =>
    /\ noPatternMatches(args.filePaths) => ret = <<>>
    /\ ~inSeq("*", ret)

\* the case of C10: files were given, none matches a pattern
C10_Witness ==
  /\ DetectReturned
  /\ args.filePaths # <<>>
  /\ noPatternMatches(args.filePaths)
  /\ ret = <<>>

\* a path of the list ends in '.tsx'
hasTsxPath(filePaths) ==
  \E f \in 1..Len(filePaths) : endsWith(filePaths[f], ".tsx")

\* C11 as stated, detection union: for ["a.tsx", "pkg.json"], and for any
\* file list with a path ending in '.tsx', detectProjectType returns both
\* 'typescript' and 'react'.
C11_TsxGivesTypescriptAndReact ==
  (DetectReturned /\ hasTsxPath(args.filePaths)) =>
    inSeq("typescript", ret) /\ inSeq("react", ret)

\* C11 as amended: a path ending in '.tsx' makes detectProjectType return
\* 'typescript'; 'react' is returned only when some path contains 'src/',
\* 'package.json' or 'react', so ["a.tsx", "pkg.json"] gives 'typescript'
\* and 'javascript' without 'react'.
C11_TsxGivesTypescript ==
  DetectReturned =>
    /\ hasTsxPath(args.filePaths) => inSeq("typescript", ret)
    /\ inSeq("react", ret) =>
         \E f \in 1..Len(args.filePaths) :
           \/ includes(args.filePaths[f], "src/")
           \/ includes(args.filePaths[f], "package.json")
           \/ includes(args.filePaths[f], "react")
    /\ args.filePaths = <<"a.tsx", "pkg.json">> => ret = <<"typescript", "javascript">>

\* the case of C11: the file list of the claim has been detected
C11_Witness ==
  /\ DetectReturned
  /\ args.filePaths = <<"a.tsx", "pkg.json">>
  /\ inSeq("typescript", ret) /\ ~inSeq("react", ret)

\* a '.tsx' file below a directory of src/ does give both types
C11_ReactUnderSrc ==
  (DetectReturned /\ inSeq("src/components/App.tsx", args.filePaths)) =>
    inSeq("typescript", ret) /\ inSeq("react", ret)

\* the set of the ids of a list of rules
idSet(rules) == {rules[i].id : i \in 1..Len(rules)}

\* the request of the scenario: project 'acme/api', the one changed file
\* src/server.go, detected types ['go']
GoScenarioReturned ==
  /\ CollectReturned
  /\ has(args.mr, "project") /\ args.mr.project.path_with_namespace = "acme/api"
  /\ args.changes =
       [changes |-> <<[new_path |-> "src/server.go", old_path |-> "src/server.go"]>>]
  /\ args.detectedTypes = <<"go">>

GoDefaultIds ==
  {"go-error-handling", "go-context-usage", "go-interface-naming",
   "no-hardcoded-secrets", "input-validation"}

keysOf(projects) == {projects[i].key : i \in 1..Len(projects)}

entryOf(projects, key) ==
  projects[CHOOSE i \in 1..Len(projects) : projects[i].key = key].config

\* getProjectSpecificRules has returned
LookupReturned == op = "getProjectSpecificRules" /\ phase = "returned"

\* the "projects" object of the configuration file that module load used
externalLoaded == loadExternalRules(fileSystem).projects

\* C13, overlay: every key of the effective map holds the external file's
\* entry when the external projects have that key, whole, and the builtin
\* entry otherwise; a lookup of 'backend/api-service' gives the external
\* projectName when the external file redefines that key.
C13_ExternalEntryReplacesBuiltin ==
  /\ keysOf(PROJECT_SPECIFIC_RULES) = keysOf(BUILTIN_PROJECT_RULES) \cup keysOf(externalLoaded)
  /\ \A key \in keysOf(PROJECT_SPECIFIC_RULES) :
       entryOf(PROJECT_SPECIFIC_RULES, key) =
         IF key \in keysOf(externalLoaded) THEN entryOf(externalLoaded, key)
         ELSE entryOf(BUILTIN_PROJECT_RULES, key)
  /\ (/\ LookupReturned
      /\ args.projectIdentifier = Str("backend/api-service")
      /\ "backend/api-service" \in keysOf(externalLoaded)) =>
       /\ ret.kind = "config"
       /\ ret.config.projectName =
            entryOf(externalLoaded, "backend/api-service").projectName

\* the case of C13: the external file redefines 'backend/api-service', the
\* lookup gives its projectName and no additionalProjectTypes, which only
\* the builtin entry has
C13_Witness ==
  /\ LookupReturned
  /\ args.projectIdentifier = Str("backend/api-service")
  /\ "backend/api-service" \in keysOf(externalLoaded)
  /\ has(entryOf(BUILTIN_PROJECT_RULES, "backend/api-service"), "additionalProjectTypes")
  /\ ret.config.projectName = "API Service (external)"
  /\ ~has(ret.config, "additionalProjectTypes")

\* the candidates that exist, and those that exist and parse
existing == {i \in 1..Len(configPaths) : fileSystem[i].exists}

parsing == {i \in existing : fileSystem[i].parses}

first(candidates) == CHOOSE i \in candidates : \A j \in candidates : i <= j

errorLogged(i) ==
  \E k \in 1..Len(log) :
    log[k].level = "error" /\ has(log[k], "path") /\ log[k].path = configPaths[i]

projectsOf(file) == IF has(file.config, "projects") THEN file.config.projects ELSE <<>>

C14_WitnessBuiltinOnly ==
  /\ existing # {} /\ parsing = {}
  /\ errorLogged(first(existing))
  /\ PROJECT_SPECIFIC_RULES = BUILTIN_PROJECT_RULES

\* the indexes of the configurations whose own projectIdentifier is id
withIdentifier(id) ==
  {i \in 1..Len(PROJECT_SPECIFIC_RULES) :
     PROJECT_SPECIFIC_RULES[i].config.projectIdentifier = id}

\* the lookup order of C15 for one identifier and one result
lookupAsSpecified(id, result) ==
  IF id.v \in keysOf(PROJECT_SPECIFIC_RULES)
  THEN result = [kind |-> "config", config |-> entryOf(PROJECT_SPECIFIC_RULES, id.v)]
  ELSE IF withIdentifier(id) # {}
       THEN result = [kind |-> "config",
                      config |-> PROJECT_SPECIFIC_RULES[first(withIdentifier(id))].config]
       ELSE result = [kind |-> "null"]

\* C15, lookup: getProjectSpecificRules returns the configuration under the
\* key equal to the identifier when there is such a key, otherwise the first
\* configuration whose projectIdentifier equals the identifier, otherwise
\* null.
C15_KeyThenIdentifierThenNull ==
  LookupReturned => lookupAsSpecified(args.projectIdentifier, ret)

\* the lookup order holds for every identifier that is not the name of a
\* member that every object inherits
LookupOrderButInherited ==
  (LookupReturned /\ args.projectIdentifier.v \notin ObjectPrototypeKeys) =>
    lookupAsSpecified(args.projectIdentifier, ret)

\* collectGeneralSecurityScanRules has returned a result
GeneralSecurityReturned ==
  op = "collectGeneralSecurityScanRules" /\ phase = "returned" /\ ~ret.threw

ProfessionalSecurityReturned ==
  op = "collectProfessionalSecurityScanRules" /\ phase = "returned" /\ ~ret.threw

\* C17, professional-security profile: every rule of allRules is a catalog
\* rule whose id starts with 'professional-', or a custom rule of category
\* 'security', or a rule of the project of category 'security'; a custom
\* rule of another category is not in allRules.
C17_ProfessionalCustomOrOwnSecurity ==
  ProfessionalSecurityReturned =>
    LET custom == IF args.customRules.given THEN args.customRules.rules ELSE <<>>
        own == IF ret.hasProjectConfig THEN ret.projectConfig.rules ELSE <<>>
    IN /\ \A i \in 1..Len(ret.allRules) :
            \/ /\ inSeq(ret.allRules[i], CODE_REVIEW_RULES)
               /\ startsWith(ret.allRules[i].id, "professional-")
            \/ /\ inSeq(ret.allRules[i], custom)
               /\ ret.allRules[i].category = "security"
            \/ /\ inSeq(ret.allRules[i], own)
               /\ ret.allRules[i].category = "security"
       /\ \A c \in 1..Len(custom) :
            custom[c].category # "security" => ~inSeq(custom[c], ret.allRules)

\* the case of C17: custom rules of both kinds were given to a configured
\* project; the security one, a project rule and a catalog rule are selected
C17_Witness ==
  /\ ProfessionalSecurityReturned
  /\ args.customRules = Custom(<<PciRule, RelaxedLoggingRule>>)
  /\ ret.hasProjectConfig /\ ret.projectSpecificRules # <<>>
  /\ inSeq(PciRule, ret.allRules)
  /\ \E i \in 1..Len(ret.allRules) :
       ret.allRules[i].id = "professional-logging-prohibition"
         /\ inSeq(ret.allRules[i], CODE_REVIEW_RULES)

\* a profile collector has returned a result for a configured project
ProfileReturnedWithConfig ==
  /\ op \in {"collectCodeStyleOptimizationRules", "collectGeneralSecurityScanRules",
              "collectProfessionalSecurityScanRules"}
  /\ phase = "returned" /\ ~ret.threw
  /\ ret.hasProjectConfig

\* C18, profiles honour exclusions: for a configured project every id of
\* excludeDefaultRules is absent from the allRules of a profile collector,
\* unless it is the id of a rule of the project of the profile's category.
C18_ProfilesExclude ==
  (ProfileReturnedWithConfig /\ has(ret.projectConfig, "excludeDefaultRules")) =>
    \A e \in 1..Len(ret.projectConfig.excludeDefaultRules) :
      hasId(ret.projectConfig.excludeDefaultRules[e], ret.allRules)
        => hasId(ret.projectConfig.excludeDefaultRules[e], ret.projectSpecificRules)

\* formatRulesOutput has returned the report of a non-empty list
FormatReturned ==
  op = "formatRulesOutput" /\ phase = "returned" /\ args.rules # <<>>

\* the severity that an emoji of a rule line stands for
severityOfEmoji(emoji) ==
  CASE emoji = "police-light" -> "error"
    [] emoji = "warning-sign" -> "warning"
    [] emoji = "information" -> "info"

\* the lines of the report between a category line and the next one: the
\* groups of the report, each the sequence of its rule lines
groupStarts(text) == {i \in 1..Len(text) : text[i].line = "category"}

groupOf(text, start) ==
  LET next == {j \in groupStarts(text) : j > start}
      end == IF next = {} THEN Len(text) ELSE first(next) - 1
  IN SubSeq(text, start + 1, end)

\* C19 as stated, report format: inside every category group of the report
\* the rules are listed by severity, error entries before warning entries
\* before info entries, for any order of the input list.
C19_GroupsSortedBySeverity ==
  FormatReturned =>
    \A start \in groupStarts(ret) :
      LET lines == groupOf(ret, start)
      IN \A i, j \in 1..Len(lines) :
           i < j => severityOrder(severityOfEmoji(lines[i].severityEmoji))
                      <= severityOrder(severityOfEmoji(lines[j].severityEmoji))

\* C19 as amended: the report has one group per category, in the order in
\* which the categories first occur in the input list, and inside every
\* group the rules of the category stand in the order of the input list.
C19_GroupsInInputOrder ==
  FormatReturned =>
    LET starts == groupStarts(ret)
        ofCategory(category) ==
          SelectSeq(args.rules, LAMBDA rule : toUpperCase(rule.category) = category)
    IN /\ ret[1] = [line |-> "header", total |-> Len(args.rules)]
       /\ \A a, b \in starts : a # b => ret[a].category # ret[b].category
       /\ \A r \in 1..Len(args.rules) :
            \E a \in starts : ret[a].category = toUpperCase(args.rules[r].category)
       /\ \A a, b \in starts :
            a < b => \E i \in 1..Len(args.rules) :
                       /\ toUpperCase(args.rules[i].category) = ret[a].category
                       /\ \A j \in 1..i : toUpperCase(args.rules[j].category) # ret[b].category
       /\ \A a \in starts :
            LET lines == groupOf(ret, a)
                rules == ofCategory(ret[a].category)
            IN /\ Len(lines) = Len(rules) /\ ret[a].rules = Len(rules)
               /\ \A i \in 1..Len(lines) :
                    /\ lines[i].line = "rule"
                    /\ lines[i].title = rules[i].title
                    /\ severityOfEmoji(lines[i].severityEmoji) = rules[i].severity

\* the case of C19: a warning was given before an error of the same
\* category and the report lists them in that order
C19_Witness ==
  /\ FormatReturned
  /\ \E start \in groupStarts(ret) :
       LET lines == groupOf(ret, start)
       IN \E i, j \in 1..Len(lines) :
            /\ i < j
            /\ severityOfEmoji(lines[i].severityEmoji) = "warning"
            /\ severityOfEmoji(lines[j].severityEmoji) = "error"
  /\ Cardinality(groupStarts(ret)) > 1

\* write_gitlab_mr_note is running or has returned, its mode is set
NoteToolRunning == op = "write_gitlab_mr_note" /\ local.mode # "unset"

NoteToolReturned == NoteToolRunning /\ phase = "returned"

\* C20, notification modes: a note is written to GitLab only in the modes
\* gitlab_only and both, and in these modes the tool does not return without
\* the note unless GitLab refused it; a request goes to the Lark webhook
\* only in the modes lark_only and both; so gitlab_only sends no Lark request
\* and lark_only writes no note.
C20_ModesSeparateChannels ==
  NoteToolRunning =>
    /\ gitlabNotes # <<>> => local.mode \in {"gitlab_only", "both"}
    /\ (phase = "returned" /\ local.mode \in {"gitlab_only", "both"}) =>
         \/ gitlabNotes = <<args.note>> /\ local.gitlabResult # "null"
         \/ ret = failed("GitLab API error")
    /\ (webhook.requests > 0 \/ phase \in {"fetchInfo", "sendToWebhook"})
         => local.mode \in {"lark_only", "both"}
    /\ local.mode = "gitlab_only" => webhook.requests = 0
    /\ local.mode = "lark_only" => gitlabNotes = <<>>

\* the case of C20: in mode both the note was written and the webhook was
\* called
C20_Witness ==
  /\ NoteToolReturned
  /\ local.mode = "both"
  /\ gitlabNotes = <<args.note>>
  /\ webhook.requests > 0

\* the two other modes have run to their response
C20_WitnessLarkOnly ==
  NoteToolReturned /\ local.mode = "lark_only" /\ webhook.requests > 0

C20_WitnessGitlabOnly ==
  NoteToolReturned /\ local.mode = "gitlab_only" /\ gitlabNotes # <<>>

\* C21, effective notification mode: the mode of a run is the notificationMode
\* parameter when it is given, whatever the environment says; otherwise the
\* lower-cased GITLAB_NOTE_MODE when that is gitlab_only, lark_only or both;
\* otherwise, GITLAB_NOTE_MODE unset or of another value, gitlab_only.  The
\* response names this mode.
C21_ParameterThenEnvironmentThenDefault ==
  NoteToolRunning =>
    /\ has(args, "notificationMode") => local.mode = args.notificationMode
    /\ (~has(args, "notificationMode") /\ has(env, "GITLAB_NOTE_MODE")) =>
         IF toLowerCase(env.GITLAB_NOTE_MODE) \in {"gitlab_only", "lark_only", "both"}
         THEN local.mode = toLowerCase(env.GITLAB_NOTE_MODE)
         ELSE local.mode = "gitlab_only"
    /\ (~has(args, "notificationMode") /\ ~has(env, "GITLAB_NOTE_MODE")) =>
         local.mode = "gitlab_only"
    /\ (phase = "returned" /\ ret.kind = "done") => ret.mode = local.mode

\* the case of C21: the parameter overrides an environment of another mode
C21_Witness ==
  /\ NoteToolReturned
  /\ has(args, "notificationMode") /\ args.notificationMode = "gitlab_only"
  /\ has(env, "GITLAB_NOTE_MODE") /\ env.GITLAB_NOTE_MODE = "both"
  /\ ret.kind = "done" /\ ret.mode = "gitlab_only"

\* the environment decides, written in capitals
C21_WitnessEnvironment ==
  /\ NoteToolReturned
  /\ ~has(args, "notificationMode")
  /\ has(env, "GITLAB_NOTE_MODE") /\ env.GITLAB_NOTE_MODE = "LARK_ONLY"
  /\ local.mode = "lark_only"

\* the environment holds no mode
C21_WitnessDefault ==
  /\ NoteToolReturned
  /\ ~has(args, "notificationMode")
  /\ has(env, "GITLAB_NOTE_MODE") /\ env.GITLAB_NOTE_MODE = "all"
  /\ local.mode = "gitlab_only"

\* C22, a Lark failure does not affect the main flow: in mode both, when the
\* GitLab note has been written, the tool returns its response and not the
\* failure text, and the response reports the note, whatever happened on the
\* Lark side (Lark not configured, the merge request or the project not
\* fetched for the card, every request to the webhook failed).
C22_LarkFailureKeepsNote ==
  (NoteToolReturned /\ local.mode = "both" /\ gitlabNotes # <<>>) =>
    /\ ret.kind = "done"
    /\ ret.gitlabNote
    /\ gitlabNotes = <<args.note>>

\* the case of C22: the note is written and every request to the webhook
\* failed
C22_Witness ==
  /\ NoteToolReturned /\ local.mode = "both" /\ gitlabNotes # <<>>
  /\ webhook.requests = maxRetries + 1 /\ ~webhook.delivered
  /\ ret.kind = "done" /\ ret.gitlabNote

\* the note is written and the data of the card could not be fetched
C22_WitnessFetch ==
  /\ NoteToolReturned /\ local.mode = "both" /\ gitlabNotes # <<>>
  /\ local.larkResult.error = "GitLab API error"
  /\ ret.kind = "done" /\ ret.gitlabNote /\ ret.lark = "failed"

\* the note is written and Lark is not configured
C22_WitnessNotConfigured ==
  /\ NoteToolReturned /\ local.mode = "both" /\ gitlabNotes # <<>>
  /\ ~isConfigured(env)
  /\ ret.kind = "done" /\ ret.gitlabNote /\ ret.error = "Lark not configured"

\* the types a sequence holds
typeSet(types) == {types[i] : i \in 1..Len(types)}

\* the additional types of the configuration a call found, <<>> without one
additionalTypesOf(result) ==
  IF result.hasProjectConfig /\ has(result.projectConfig, "additionalProjectTypes")
  THEN result.projectConfig.additionalProjectTypes
  ELSE <<>>

\* the array after the call is the array before it followed by the types
\* of added, each of them once
enlargedBy(before, after, added) ==
  /\ Len(after) >= Len(before)
  /\ SubSeq(after, 1, Len(before)) = before
  /\ LET pushed == SubSeq(after, Len(before) + 1, Len(after))
     IN /\ typeSet(pushed) = typeSet(added) \ typeSet(before)
        /\ NoRepeat(pushed)

\* the ids of the default rules of the types that the configuration does
\* not exclude
keptDefaultIds(types, result) ==
  LET defaults == getDefaultRulesForProjectTypes(types)
  IN {id \in idSet(defaults.rules) :
        ~(result.hasProjectConfig /\ has(result.projectConfig, "excludeDefaultRules")
            /\ inSeq(id, result.projectConfig.excludeDefaultRules))}

\* C23, type enlargement and its frame: when collectMergeRequestRules has
\* returned, the caller's detectedTypes array is its content before the call
\* followed by exactly the additionalProjectTypes of the matched
\* configuration that it did not hold, each added once, and the default
\* rules in allRules are those of this enlarged array; without a matching
\* configuration, or without additionalProjectTypes in it, the array is as
\* it was.
C23_EnlargedOnceEach ==
  CollectReturned =>
    /\ enlargedBy(args.detectedTypes, detectedTypes, additionalTypesOf(ret))
    /\ keptDefaultIds(detectedTypes, ret) \subseteq idSet(ret.allRules)
    /\ additionalTypesOf(ret) = <<>> => detectedTypes = args.detectedTypes

\* C23 for the configurations that name no additional type twice
C23_EnlargedUnlessRepeated ==
  (CollectReturned /\ NoRepeat(additionalTypesOf(ret))) =>
    /\ enlargedBy(args.detectedTypes, detectedTypes, additionalTypesOf(ret))
    /\ keptDefaultIds(detectedTypes, ret) \subseteq idSet(ret.allRules)
    /\ additionalTypesOf(ret) = <<>> => detectedTypes = args.detectedTypes

\* the array is enlarged by the two additional types of a configuration,
\* and a default rule of an added type is among the rules
C23_EnlargedByTwo ==
  /\ CollectReturned
  /\ args.detectedTypes = <<"typescript">>
  /\ additionalTypesOf(ret) = <<"backend", "node">>
  /\ detectedTypes = <<"typescript", "backend", "node">>
  /\ keptDefaultIds(detectedTypes, ret) \ keptDefaultIds(args.detectedTypes, ret) # {}

\* the additional types are in the array already: it is as it was
C23_NothingToAdd ==
  /\ CollectReturned
  /\ args.detectedTypes = <<"backend", "node">>
  /\ additionalTypesOf(ret) = <<"backend", "node">>
  /\ detectedTypes = <<"backend", "node">>

\* the ids of the four sources of a returned result, one source after the
\* other: project-specific, file-specific, default, universal
sourceIds ==
  idsOf(ret.projectSpecificRules \o ret.fileSpecificRules
          \o mergedDefaultRules \o universalRules)

\* the ids of a sequence, each at the place of its first occurrence
firstSeen(ids) ==
  SelectSeq([i \in 1..Len(ids) |-> i],
            LAMBDA i : \A j \in 1..(i - 1) : ids[j] # ids[i])

\* C24, output order: the ids of allRules stand in the order in which they
\* are first seen in the concatenation of the project-specific, the
\* file-specific, the default and the universal rules; the place of an id is
\* that of its first occurrence there.
C24_FirstSeenOrder ==
  CollectReturned =>
    LET ids == sourceIds
        places == firstSeen(ids)
    IN /\ Len(ret.allRules) = Len(places)
       /\ \A k \in 1..Len(ret.allRules) : ret.allRules[k].id = ids[places[k]]

\* the case of C24: an id of the project's rules occurs again among the
\* universal rules and stands at its place among the project's rules, with
\* file-specific rules behind it
C24_Witness ==
  /\ CollectReturnedWithConfig
  /\ Len(ret.fileSpecificRules) > 0
  /\ \E i \in 1..Len(ret.projectSpecificRules) :
       /\ hasId(ret.projectSpecificRules[i].id, universalRules)
       /\ ret.allRules[i].id = ret.projectSpecificRules[i].id
       /\ i < Len(ret.projectSpecificRules)
  /\ \E k \in 1..Len(ret.allRules) :
       /\ k > Len(ret.projectSpecificRules)
       /\ ret.allRules[k].id = ret.fileSpecificRules[1].id

\* collectMergeRequestRules has ended, by a return or by a throw, for a
\* merge request whose project has no configuration (no key and no
\* projectIdentifier of the map is its path or id), without changed files
\* and with no detected type
NothingKnownEnded ==
  /\ op = "collectMergeRequestRules" /\ phase = "returned"
  /\ projectPathOf(args.mr).v \notin keysOf(PROJECT_SPECIFIC_RULES)
  /\ withIdentifier(projectPathOf(args.mr)) = {}
  /\ (has(args.changes, "changes") => args.changes.changes = <<>>)
  /\ args.detectedTypes = <<>>

\* C25, graceful degradation: for a merge request whose project has no
\* configuration, with no changed files (changes.changes absent or empty)
\* and no detected type, collectMergeRequestRules does not throw, returns
\* hasProjectConfig = false with empty projectSpecificRules and
\* fileSpecificRules, and every rule of allRules has '*' among its
\* projectTypes.
C25_UniversalRulesOnly ==
  NothingKnownEnded =>
    /\ ~ret.threw
    /\ ~ret.hasProjectConfig
    /\ ret.projectSpecificRules = <<>>
    /\ ret.fileSpecificRules = <<>>
    /\ \A k \in 1..Len(ret.allRules) : inSeq("*", ret.allRules[k].projectTypes)
    /\ detectedTypes = <<>>

\* the case of C25, for a changes object without a changes field: rules
\* are returned, universal ones
C25_Witness ==
  /\ NothingKnownEnded
  /\ ~has(args.changes, "changes")
  /\ ~ret.threw
  /\ Len(ret.allRules) > 0
  /\ inSeq("*", ret.allRules[1].projectTypes)

\* ... and for an empty list of changes, of a project that the external
\* configuration would know
C25_WitnessEmptyChanges ==
  /\ NothingKnownEnded
  /\ has(args.changes, "changes")
  /\ projectPathOf(args.mr) = Str("acme/shop")
  /\ ~ret.threw /\ Len(ret.allRules) > 0

\* an answer of the webhook that is an error not to be retried: an HTTP
\* status 4xx other than 408 and 429, or HTTP ok with a result code that is
\* neither 0 nor one of the retryable codes
notToBeRetried(outcome) ==
  \/ /\ outcome.kind = "http"
     /\ outcome.status >= 400 /\ outcome.status < 500
     /\ outcome.status \notin {408, 429}
  \/ /\ outcome.kind = "api"
     /\ outcome.code \notin {0, 50001, 50002}

\* C26, no retry on non-retryable webhook errors: after an answer of the
\* webhook with an HTTP 4xx status other than 408 and 429, or with HTTP
\* success and a result code outside {50001, 50002}, sendToWebhook sends no
\* further request (it is not at another attempt) and the error is raised to
\* its caller, which records it instead of "sent".
C26_NoRetryWhenNotRetryable ==
  (NoteToolRunning /\ webhook.requests > 0 /\ notToBeRetried(webhook.last)) =>
    /\ phase = "returned"
    /\ ~local.larkResult.sent
    /\ local.larkResult.error # "null"

\* what the code does after such an answer: it goes to the next attempt
\* while attempts are left, and returns without an error after the last
C26_RetriedUntilExhausted ==
  (NoteToolRunning /\ webhook.requests > 0 /\ notToBeRetried(webhook.last)) =>
    IF webhook.requests <= maxRetries
    THEN phase = "sendToWebhook" /\ local.attempt = webhook.requests
    ELSE phase = "returned" /\ local.larkResult.sent /\ local.larkResult.error = "null"

\* a first answer 400 is followed by a second request
C26_SecondRequestAfter400 ==
  /\ NoteToolRunning
  /\ webhook.requests = 1
  /\ webhook.last = [kind |-> "http", status |-> 400]
  /\ phase = "sendToWebhook" /\ local.attempt = 1

\* the webhook answered HTTP ok with result code 0
succeeded(outcome) == outcome.kind = "api" /\ outcome.code = 0

\* C27, bounded retry: whatever the webhook answers (fetch throwing, an
\* HTTP error status, a result code other than 0, success), sendToWebhook
\* sends at most maxRetries + 1 = 4 requests, a request that succeeded is
\* the last one, and sendToWebhook comes to its end.
C27_BoundedRetry ==
  /\ [](NoteToolRunning =>
          /\ webhook.requests <= maxRetries + 1
          /\ phase = "sendToWebhook" => webhook.requests = local.attempt
                                           /\ local.attempt <= maxRetries
          /\ webhook.delivered => phase = "returned" /\ succeeded(webhook.last))
  /\ (phase = "sendToWebhook") ~> (phase = "returned")

\* the case of C27: four requests were sent, none succeeded, and the tool
\* has returned
C27_Witness ==
  /\ NoteToolReturned
  /\ webhook.requests = maxRetries + 1
  /\ ~webhook.delivered

\* the third request succeeded and was the last
C27_WitnessSucceeded ==
  /\ NoteToolReturned
  /\ webhook.requests = 3
  /\ webhook.delivered

\* C28, truthful Lark status: the tool reports the Lark notification as sent
\* (larkResult.sent, "sent" in the response) only if a request to the
\* webhook succeeded; when every request failed the response does not say
\* "sent", and in mode lark_only the tool returns the failure text.
C28_SentOnlyIfDelivered ==
  NoteToolReturned =>
    /\ local.larkResult.sent => webhook.delivered
    /\ (ret.kind = "done" /\ ret.lark = "sent") => webhook.delivered
    /\ (local.mode = "lark_only" /\ webhook.requests > 0 /\ ~webhook.delivered)
         => ret.kind = "failed"

\* what the code reports: "sent" whenever sendToWebhook was entered and has
\* returned, whether a request succeeded or not
C28_SentWheneverRequested ==
  NoteToolReturned =>
    /\ local.larkResult.sent <=> webhook.requests > 0
    /\ webhook.requests > 0 => ret.kind = "done" /\ ret.lark = "sent"

\* four requests failed and the response of mode lark_only says "sent"
C28_SentAfterFourFailures ==
  /\ NoteToolReturned
  /\ local.mode = "lark_only"
  /\ webhook.requests = maxRetries + 1 /\ ~webhook.delivered
  /\ ret.kind = "done" /\ ret.lark = "sent"

\* the second call, with the array that the first call left, has returned
RerunReturned == CollectReturned /\ rerun # NotCalled

\* C29, re-running on the enlarged type set is a fixpoint: the call of
\* collectMergeRequestRules with the array D' that a first call left leaves
\* the array equal to D' and returns the same fileSpecificRules and the same
\* allRules (ids, order, content) as the first call.
C29_RerunReturnsTheSame ==
  RerunReturned =>
    /\ ~rerun.threw
    /\ rerun.detectedTypes = ret.detectedTypes
    /\ rerun.fileSpecificRules = ret.fileSpecificRules
    /\ rerun.allRules = ret.allRules

\* C29 as the code has it: the second call leaves the array equal to D' and
\* finds the same configuration and project-specific rules; it returns the
\* fileSpecificRules and allRules of the first call when the first call
\* added no type (D' = D); when the first call added types, the
\* fileSpecificRules of the second call are those of the changed files for
\* D', which hold every rule of the first call's, and allRules holds every
\* id of the first call's.
C29_RerunKeepsArray ==
  RerunReturned =>
    /\ ~rerun.threw
    /\ rerun.detectedTypes = ret.detectedTypes
    /\ detectedTypes = ret.detectedTypes
    /\ rerun.hasProjectConfig = ret.hasProjectConfig
    /\ rerun.projectSpecificRules = ret.projectSpecificRules
    /\ ret.detectedTypes = args.detectedTypes =>
         /\ rerun.fileSpecificRules = ret.fileSpecificRules
         /\ rerun.allRules = ret.allRules
    /\ \A i \in 1..Len(ret.fileSpecificRules) :
         \E j \in 1..Len(rerun.fileSpecificRules) :
           rerun.fileSpecificRules[j] = ret.fileSpecificRules[i]
    /\ idSet(ret.allRules) \subseteq idSet(rerun.allRules)

\* the case of C29: the first call added types, and the second call, which
\* leaves the array as it is, returns more file-specific rules
C29_Witness ==
  /\ RerunReturned
  /\ Len(ret.detectedTypes) > Len(args.detectedTypes)
  /\ rerun.detectedTypes = ret.detectedTypes
  /\ Len(rerun.fileSpecificRules) > Len(ret.fileSpecificRules)

\* the first call added types and the second call returns the same
C29_WitnessSame ==
  /\ RerunReturned
  /\ Len(ret.detectedTypes) > Len(args.detectedTypes)
  /\ Len(ret.fileSpecificRules) > 0
  /\ rerun.fileSpecificRules = ret.fileSpecificRules
  /\ rerun.allRules = ret.allRules

\* the configuration map as module load built it
storeAsLoaded == objectSpread(BUILTIN_PROJECT_RULES, externalLoaded)

====
